---- MODULE Spec2Model ----
(***************************************************************************)
(* State-machine model of the PCA9555 / PCAL9555A GPIO-expander driver     *)
(* (src/src/pcal95555.ipp) together with the I2C transport it borrows.     *)
(*                                                                         *)
(* Every public driver operation is one atomic action.  The transport is   *)
(* scripted: each action draws a finite sequence of BOOLEAN outcomes, one  *)
(* per transport call (EnsureInitialized, Read, Write) in call order; once *)
(* the script is exhausted the transport works.  A Read or Write that the  *)
(* script lets through still fails (NACK) when no device sits at the       *)
(* addressed bus address, or when the register belongs to the Agile-I/O    *)
(* bank (0x40..0x4F) and the device is a plain PCA9555.                    *)
(*                                                                         *)
(* trace records the transport calls of the most recent operation and      *)
(* last records that operation's name, arguments and return value.         *)
(*                                                                         *)
(* run holds the invocations in flight when two threads share the driver   *)
(* without a lock (the driver has none); every operation that is executed  *)
(* as a whole leaves it alone.                                             *)
(***************************************************************************)
EXTENDS Integers, Sequences, FiniteSets, TLC

VARIABLES drv, bus, trace, last, calls, run

vars == <<drv, bus, trace, last, calls, run>>

(***************************************************************************)
(* Register map: enum class PCAL95555_REG.                                 *)
(***************************************************************************)
INPUT_PORT_0 == 0
INPUT_PORT_1 == 1
OUTPUT_PORT_0 == 2
OUTPUT_PORT_1 == 3
POLARITY_INV_0 == 4
POLARITY_INV_1 == 5
CONFIG_PORT_0 == 6
CONFIG_PORT_1 == 7
DRIVE_STRENGTH_0 == 64
DRIVE_STRENGTH_1 == 65
DRIVE_STRENGTH_2 == 66
DRIVE_STRENGTH_3 == 67
INPUT_LATCH_0 == 68
INPUT_LATCH_1 == 69
PULL_ENABLE_0 == 70
PULL_ENABLE_1 == 71
PULL_SELECT_0 == 72
PULL_SELECT_1 == 73
INT_MASK_0 == 74
INT_MASK_1 == 75
INT_STATUS_0 == 76
INT_STATUS_1 == 77
OUTPUT_CONF == 79

BaseRegs == INPUT_PORT_0 .. CONFIG_PORT_1

AgileRegs == (DRIVE_STRENGTH_0 .. INT_STATUS_1) \cup {OUTPUT_CONF}

Regs == BaseRegs \cup AgileRegs

(***************************************************************************)
(* Addressing.                                                             *)
(***************************************************************************)
BASE_ADDRESS == 32

MAX_ADDRESS == 39

MAX_BITS == 7

NUM_PINS == 16

DefaultRetries == 1

Variants == {"Unknown", "PCA9555", "PCAL9555A"}

\* enum class InterruptEdge
Edges == {"Rising", "Falling", "Both"}

\* the callables a client hands over as callbacks, and the empty std::function
Handlers == {"f", "g"}

NoHandler == "null"

Errors == {"InvalidPin", "InvalidMask", "I2CReadFail", "I2CWriteFail",
           "UnsupportedFeature", "InvalidAddress"}

(***************************************************************************)
(* Bounds of the model.                                                    *)
(***************************************************************************)
\* longest transport script an operation may draw
MaxScript == 5

\* longest list a list-based operation is given
MaxList == 3

\* number of counted operations in a run
MaxCalls == 1

\* largest retry count SetRetries is given
MaxRetries == 2

\* bus addresses at which a device is wired
DevAddrs == {BASE_ADDRESS, BASE_ADDRESS + 1}

(***************************************************************************)
(* Byte and bit arithmetic (uint8_t / uint16_t).                           *)
(***************************************************************************)
BitOf(v, b) == (v \div (2 ^ b)) % 2

TestBit(v, b) == BitOf(v, b) = 1

\* x & 0x07
And7(x) == x % (MAX_BITS + 1)

\* (hi << 8) | lo
Word(lo, hi) == hi * 256 + lo

LoByte(w) == w % 256

HiByte(w) == (w \div 256) % 256

\* static uint8_t updateBit(uint8_t regVal, uint8_t bit, bool set)
updateBit(regVal, bit, set) ==
  IF set
    THEN (IF TestBit(regVal, bit) THEN regVal ELSE regVal + 2 ^ bit)
    ELSE (IF TestBit(regVal, bit) THEN regVal - 2 ^ bit ELSE regVal)

RECURSIVE XorBits(_, _, _)
\* a ^ b over the low n bits
XorBits(a, b, n) ==
  IF n = 0
    THEN 0
    ELSE ((a + b) % 2) + 2 * XorBits(a \div 2, b \div 2, n - 1)

\* uint16_t a ^ b
Xor16(a, b) == XorBits(a, b, NUM_PINS)

\* static constexpr uint8_t calculateAddress(uint8_t bits)
calculateAddress(bits) == BASE_ADDRESS + And7(bits)

(***************************************************************************)
(* Transport scripts.                                                      *)
(***************************************************************************)
RECURSIVE SeqsUpTo(_, _)
SeqsUpTo(S, n) ==
  IF n = 0 THEN {<<>>}
  ELSE LET shorter == SeqsUpTo(S, n - 1)
       IN shorter \cup {Append(q, x) : q \in shorter, x \in S}

\* scripts that differ only in trailing successes are the same transport
Scripts == {q \in SeqsUpTo(BOOLEAN, MaxScript) : q = <<>> \/ ~q[Len(q)]}

\* k failing transport calls, then a working transport (the test's MockI2C)
FailPrefix(k) == [i \in 1..k |-> FALSE]

\* a transport that is down for its first k calls
Outages == {FailPrefix(k) : k \in 0..MaxRetries}

\* scripts no longer than one transaction that fails under the largest retry
\* count
ShortScripts == {q \in Scripts : Len(q) <= MaxRetries + 1}

(***************************************************************************)
(* The machine an operation runs on: d the driver object, b the bus with   *)
(* its devices, s the rest of the script, t the transport calls so far.    *)
(***************************************************************************)
Machine(script) == [d |-> drv, b |-> bus, s |-> script, t |-> <<>>]

Scripted(m) == IF m.s = <<>> THEN TRUE ELSE Head(m.s)

Consume(m) == IF m.s = <<>> THEN <<>> ELSE Tail(m.s)

\* whether a device acknowledges a transfer for register reg at address addr
Acked(m, addr, reg) ==
  /\ addr \in DevAddrs
  /\ reg \in Regs
  /\ (reg \in BaseRegs \/ m.b.hw[addr] = "PCAL9555A")

\* i2c_->EnsureInitialized()
I2cEnsureInitialized(m) ==
  LET ok == Scripted(m)
  IN [m |-> [m EXCEPT !.s = Consume(m),
                      !.t = Append(m.t, [k |-> "E", ok |-> ok])],
      ok |-> ok]

\* i2c_->SetAddressPins(a0, a1, a2): the interface's default, unsupported
I2cSetAddressPins(m, a0, a1, a2) ==
  [m |-> [m EXCEPT !.t = Append(m.t, [k |-> "A", ok |-> FALSE])],
   ok |-> FALSE]

\* i2c_->Read(dev_addr_, reg, &value, 1); a failed read leaves value as it was
I2cRead(m, reg, value) ==
  LET addr == m.d.dev_addr
      ok == Scripted(m) /\ Acked(m, addr, reg)
      v == IF ok THEN m.b.regs[addr][reg] ELSE value
      cleared == IF ok /\ reg \in {INT_STATUS_0, INT_STATUS_1}
                   THEN [m.b.regs EXCEPT ![addr][reg] = 0]
                   ELSE m.b.regs
  IN [m |-> [m EXCEPT !.s = Consume(m),
                      !.b.regs = cleared,
                      !.t = Append(m.t, [k |-> "R", addr |-> addr, reg |-> reg,
                                         ok |-> ok, val |-> v])],
      ok |-> ok,
      val |-> v]

\* i2c_->Write(dev_addr_, reg, &value, 1); the input ports are read-only
I2cWrite(m, reg, value) ==
  LET addr == m.d.dev_addr
      ok == Scripted(m) /\ Acked(m, addr, reg)
      stored == IF ok /\ reg \notin {INPUT_PORT_0, INPUT_PORT_1,
                                     INT_STATUS_0, INT_STATUS_1}
                  THEN [m.b.regs EXCEPT ![addr][reg] = value]
                  ELSE m.b.regs
  IN [m |-> [m EXCEPT !.s = Consume(m),
                      !.b.regs = stored,
                      !.t = Append(m.t, [k |-> "W", addr |-> addr, reg |-> reg,
                                         ok |-> ok, val |-> value])],
      ok |-> ok]

(***************************************************************************)
(* Error flags.                                                            *)
(***************************************************************************)
setError(m, error_code) == [m EXCEPT !.d.error_flags = @ \cup {error_code}]

\* clearError that drops every flag, not the one it is given
clearErrorAll(m, error_code) == [m EXCEPT !.d.error_flags = {}]

clearError(m, error_code) == [m EXCEPT !.d.error_flags = @ \ {error_code}]

(***************************************************************************)
(* Sequencing: Let(v, Body) is Body(v) with v evaluated once, the way a    *)
(* C++ local holds the result of a call.                                   *)
(***************************************************************************)
Let(v, Body(_)) == CHOOSE y \in {Body(x) : x \in {v}} : TRUE

(***************************************************************************)
(* Transaction layer.                                                      *)
(***************************************************************************)
RECURSIVE readRegisterFrom(_, _, _, _)
\* the loop "for (int attempt = 0; attempt <= retries_; ++attempt)" of readRegister
readRegisterFrom(m, reg, value, attempt) ==
  IF attempt <= m.d.retries
    THEN Let(I2cRead(m, reg, value), LAMBDA x :
           IF x.ok
             THEN [m |-> clearError(x.m, "I2CReadFail"), ok |-> TRUE, val |-> x.val]
             ELSE readRegisterFrom(x.m, reg, x.val, attempt + 1))
    ELSE [m |-> setError(m, "I2CReadFail"), ok |-> FALSE, val |-> value]

\* readRegister with the loop bound off by one: "attempt < retries_"
readRegisterShort(m, reg, value) == readRegisterFrom(m, reg, value, 1)

\* bool readRegister(uint8_t reg, uint8_t& value)
readRegister(m, reg, value) == readRegisterFrom(m, reg, value, 0)

RECURSIVE writeRegisterFrom(_, _, _, _)
\* the loop "for (int attempt = 0; attempt <= retries_; ++attempt)" of writeRegister
writeRegisterFrom(m, reg, value, attempt) ==
  IF attempt <= m.d.retries
    THEN Let(I2cWrite(m, reg, value), LAMBDA x :
           IF x.ok
             THEN [m |-> clearError(x.m, "I2CWriteFail"), ok |-> TRUE]
             ELSE writeRegisterFrom(x.m, reg, value, attempt + 1))
    ELSE [m |-> setError(m, "I2CWriteFail"), ok |-> FALSE]

\* bool writeRegister(uint8_t reg, uint8_t value)
writeRegister(m, reg, value) == writeRegisterFrom(m, reg, value, 0)

\* uint16_t readPinStates(): both results are ignored
readPinStates(m) ==
  Let(readRegister(m, INPUT_PORT_0, 0), LAMBDA p0 :
  Let(readRegister(p0.m, INPUT_PORT_1, 0), LAMBDA p1 :
    [m |-> p1.m, val |-> Word(p0.val, p1.val)]))

(***************************************************************************)
(* Chip-variant detection and initialization.                              *)
(***************************************************************************)
\* step 3 without its check: the tentative variant is kept whatever the
\* recovery read returns
confirmVariantUnchecked(m, tentative) ==
  Let(readRegister(m, INPUT_PORT_0, 0), LAMBDA step3 :
    clearError([step3.m EXCEPT !.d.chip_variant = tentative], "I2CReadFail"))

\* step 3 of detectChipVariant: the recovery read decides whether the
\* tentative variant is kept; the flag is cleared either way
confirmVariant(m, tentative) ==
  Let(readRegister(m, INPUT_PORT_0, 0), LAMBDA step3 :
    IF step3.ok
      THEN clearError([step3.m EXCEPT !.d.chip_variant = tentative], "I2CReadFail")
      ELSE clearError(step3.m, "I2CReadFail"))

\* detectChipVariant with the configured retries left in force
detectChipVariantRetrying(m) ==
  Let(readRegister(m, INPUT_PORT_0, 0), LAMBDA step1 :
    IF ~step1.ok
      THEN step1.m
      ELSE Let(readRegister(clearError(step1.m, "I2CReadFail"), OUTPUT_CONF, 0),
               LAMBDA step2 :
             IF step2.ok
               THEN confirmVariant(step2.m, "PCAL9555A")
               ELSE confirmVariant(clearError(step2.m, "I2CReadFail"), "PCA9555")))

\* detectChipVariant giving up when the probe fails, as it does when the
\* baseline read fails
detectChipVariantNoNegative(m) ==
  Let(m.d.retries, LAMBDA saved_retries :
  Let(readRegister([m EXCEPT !.d.retries = 0], INPUT_PORT_0, 0), LAMBDA step1 :
    IF ~step1.ok
      THEN [step1.m EXCEPT !.d.retries = saved_retries]
      ELSE Let(readRegister(clearError(step1.m, "I2CReadFail"), OUTPUT_CONF, 0),
               LAMBDA step2 :
             IF step2.ok
               THEN [confirmVariant(step2.m, "PCAL9555A") EXCEPT !.d.retries = saved_retries]
               ELSE [step2.m EXCEPT !.d.retries = saved_retries])))

\* detection that probes OUTPUT_CONF with a write instead of a read
detectChipVariantByWrite(m) ==
  Let(m.d.retries, LAMBDA saved_retries :
  Let(writeRegister([m EXCEPT !.d.retries = 0], OUTPUT_CONF, 0), LAMBDA probe :
    [probe.m EXCEPT !.d.retries = saved_retries,
                    !.d.chip_variant = IF probe.ok THEN "PCAL9555A" ELSE "PCA9555"]))

\* void detectChipVariant(): the sandwich runs with retries_ = 0
detectChipVariant(m) ==
  Let(m.d.retries, LAMBDA saved_retries :
  Let(readRegister([m EXCEPT !.d.retries = 0], INPUT_PORT_0, 0), LAMBDA step1 :
    IF ~step1.ok
      THEN [step1.m EXCEPT !.d.retries = saved_retries]
      ELSE Let(readRegister(clearError(step1.m, "I2CReadFail"), OUTPUT_CONF, 0),
               LAMBDA step2 :
             Let(IF step2.ok
                   THEN confirmVariant(step2.m, "PCAL9555A")
                   ELSE confirmVariant(clearError(step2.m, "I2CReadFail"), "PCA9555"),
                 LAMBDA done : [done EXCEPT !.d.retries = saved_retries]))))

\* the variant step with the caller's variant ignored
selectVariantByProbe(m) == detectChipVariant(m)

\* the variant step of initialize() and changeAddressImpl()
selectVariant(m) ==
  IF m.d.user_variant /= "Unknown"
    THEN [m EXCEPT !.d.chip_variant = m.d.user_variant]
    ELSE detectChipVariant(m)

\* initialize() going on after a failed verification read
initializeUnverified(m) ==
  Let(I2cEnsureInitialized(m), LAMBDA e :
    IF ~e.ok
      THEN [m |-> [setError(e.m, "I2CReadFail") EXCEPT !.d.initialized = FALSE],
            ok |-> FALSE]
      ELSE Let(I2cSetAddressPins(e.m, e.m.d.a0_level, e.m.d.a1_level, e.m.d.a2_level),
               LAMBDA a :
           Let(readRegister(a.m, INPUT_PORT_0, 0), LAMBDA test :
           Let(selectVariant(clearError(test.m, "I2CReadFail")), LAMBDA v :
           Let(readPinStates(v), LAMBDA p :
             [m |-> [p.m EXCEPT !.d.previous_pin_states = p.val,
                                !.d.initialized = TRUE],
              ok |-> TRUE])))))

\* bool initialize()
initialize(m) ==
  Let(I2cEnsureInitialized(m), LAMBDA e :
    IF ~e.ok
      THEN [m |-> [setError(e.m, "I2CReadFail") EXCEPT !.d.initialized = FALSE],
            ok |-> FALSE]
      ELSE Let(I2cSetAddressPins(e.m, e.m.d.a0_level, e.m.d.a1_level, e.m.d.a2_level),
               LAMBDA a :
           Let(readRegister(a.m, INPUT_PORT_0, 0), LAMBDA test :
             IF ~test.ok
               THEN [m |-> [setError(test.m, "I2CReadFail")
                              EXCEPT !.d.initialized = FALSE],
                     ok |-> FALSE]
               ELSE Let(selectVariant(clearError(test.m, "I2CReadFail")), LAMBDA v :
                    Let(readPinStates(v), LAMBDA p :
                      [m |-> [p.m EXCEPT !.d.previous_pin_states = p.val,
                                         !.d.initialized = TRUE],
                       ok |-> TRUE])))))

\* EnsureInitialized() without the test of initialized_
EnsureInitializedAgain(m) == initialize(m)

\* bool EnsureInitialized()
EnsureInitialized(m) ==
  IF m.d.initialized THEN [m |-> m, ok |-> TRUE] ELSE initialize(m)

(***************************************************************************)
(* Guards shared by the public operations.                                 *)
(***************************************************************************)
\* requireAgileIO that lets every chip through
requireAgileIOAny(m) == [m |-> m, ok |-> TRUE]

\* bool requireAgileIO()
requireAgileIO(m) ==
  IF m.d.chip_variant /= "PCAL9555A"
    THEN [m |-> setError(m, "UnsupportedFeature"), ok |-> FALSE]
    ELSE [m |-> m, ok |-> TRUE]

\* the guard with the variant check left out
agileGuardInitOnly(m) == EnsureInitialized(m)

\* if (!EnsureInitialized() || !requireAgileIO()) return false;
agileGuard(m) ==
  Let(EnsureInitialized(m), LAMBDA e :
    IF ~e.ok THEN e ELSE requireAgileIO(e.m))

\* the guard an operation starts with: agile selects the Agile-I/O operations
entryGuard(m, agile) == IF agile THEN agileGuard(m) ELSE EnsureInitialized(m)

(***************************************************************************)
(* Internal read-modify-write helpers.                                     *)
(***************************************************************************)
\* bool readDualPort(reg0, reg1, val0&, val1&)
readDualPort(m, reg0, reg1) ==
  Let(readRegister(m, reg0, 0), LAMBDA r0 :
    IF ~r0.ok
      THEN [m |-> r0.m, ok |-> FALSE, val0 |-> r0.val, val1 |-> 0]
      ELSE Let(readRegister(r0.m, reg1, 0), LAMBDA r1 :
             [m |-> r1.m, ok |-> r1.ok, val0 |-> r0.val, val1 |-> r1.val]))

\* writeDualPort that tries the second register once more when its write failed
writeDualPortAgain(m, reg0, reg1, val0, val1) ==
  Let(writeRegister(m, reg0, val0), LAMBDA w0 :
    IF ~w0.ok THEN w0
    ELSE Let(writeRegister(w0.m, reg1, val1), LAMBDA w1 :
           IF w1.ok THEN w1 ELSE writeRegister(w1.m, reg1, val1)))

\* bool writeDualPort(reg0, reg1, val0, val1)
writeDualPort(m, reg0, reg1, val0, val1) ==
  Let(writeRegister(m, reg0, val0), LAMBDA w0 :
    IF ~w0.ok THEN w0 ELSE writeRegister(w0.m, reg1, val1))

\* modifySinglePinRegister that always works on the register of port 0
modifySinglePinRegisterPort0(m, reg0, reg1, pin, bit_value) ==
  Let(readRegister(m, reg0, 0), LAMBDA r :
    IF ~r.ok
      THEN [m |-> r.m, ok |-> FALSE]
      ELSE writeRegister(r.m, reg0, updateBit(r.val, pin % 8, bit_value)))

\* bool modifySinglePinRegister(reg0, reg1, pin, bit_value)
modifySinglePinRegister(m, reg0, reg1, pin, bit_value) ==
  Let(IF pin < 8 THEN reg0 ELSE reg1, LAMBDA reg :
  Let(readRegister(m, reg, 0), LAMBDA r :
    IF ~r.ok
      THEN [m |-> r.m, ok |-> FALSE]
      ELSE writeRegister(r.m, reg, updateBit(r.val, pin % 8, bit_value))))

RECURSIVE maskBits(_, _, _, _)
\* the loop of modifyDualPortByMask over bit = 0..7, for the byte of one port
maskBits(val, mask8, bit_value, bit) ==
  IF bit >= 8 THEN val
  ELSE Let(IF TestBit(mask8, bit) THEN updateBit(val, bit, bit_value) ELSE val,
           LAMBDA v : maskBits(v, mask8, bit_value, bit + 1))

\* modifyDualPortByMask applying the mask to the byte of port 0 only
modifyDualPortByMaskPort0(m, reg0, reg1, mask, bit_value) ==
  Let(readDualPort(m, reg0, reg1), LAMBDA r :
    IF ~r.ok
      THEN [m |-> r.m, ok |-> FALSE]
      ELSE writeDualPort(r.m, reg0, reg1,
                         maskBits(r.val0, LoByte(mask), bit_value, 0), r.val1))

\* bool modifyDualPortByMask(reg0, reg1, mask, bit_value)
modifyDualPortByMask(m, reg0, reg1, mask, bit_value) ==
  Let(readDualPort(m, reg0, reg1), LAMBDA r :
    IF ~r.ok
      THEN [m |-> r.m, ok |-> FALSE]
      ELSE writeDualPort(r.m, reg0, reg1,
                         maskBits(r.val0, LoByte(mask), bit_value, 0),
                         maskBits(r.val1, HiByte(mask), bit_value, 0)))

RECURSIVE foldConfigs(_, _, _, _)
\* the loop with the check "config.first >= 16" replaced by skipping the entry
foldConfigsSkipping(port0, port1, configs, i) ==
  IF i > Len(configs)
    THEN [ok |-> TRUE, port0 |-> port0, port1 |-> port1]
    ELSE IF configs[i][1] >= NUM_PINS
           THEN foldConfigs(port0, port1, configs, i + 1)
           ELSE IF configs[i][1] < 8
                  THEN foldConfigs(updateBit(port0, configs[i][1] % 8, configs[i][2]),
                                   port1, configs, i + 1)
                  ELSE foldConfigs(port0, updateBit(port1, configs[i][1] % 8,
                                                    configs[i][2]),
                                   configs, i + 1)

\* the loop with every pin folded into the byte of port 0
foldConfigsPort0(port0, port1, configs, i) ==
  IF i > Len(configs)
    THEN [ok |-> TRUE, port0 |-> port0, port1 |-> port1]
    ELSE IF configs[i][1] >= NUM_PINS
           THEN [ok |-> FALSE, port0 |-> port0, port1 |-> port1]
           ELSE foldConfigs(updateBit(port0, configs[i][1] % 8, configs[i][2]),
                            port1, configs, i + 1)

\* the loop "for (const auto& config : configs)" of the list-based operations:
\* it stops at the first pin >= 16
foldConfigs(port0, port1, configs, i) ==
  IF i > Len(configs)
    THEN [ok |-> TRUE, port0 |-> port0, port1 |-> port1]
    ELSE Let(configs[i], LAMBDA config :
           IF config[1] >= NUM_PINS
             THEN [ok |-> FALSE, port0 |-> port0, port1 |-> port1]
             ELSE IF config[1] < 8
                    THEN Let(updateBit(port0, config[1] % 8, config[2]), LAMBDA p0 :
                           foldConfigs(p0, port1, configs, i + 1))
                    ELSE Let(updateBit(port1, config[1] % 8, config[2]), LAMBDA p1 :
                           foldConfigs(port0, p1, configs, i + 1)))

\* body shared by SetDirections, WritePins, SetPolarities, SetPullEnables,
\* SetPullDirections and EnableInputLatches
listBatch(m, reg0, reg1, configs, agile) ==
  Let(entryGuard(m, agile), LAMBDA g :
    IF ~g.ok
      THEN [m |-> g.m, ret |-> FALSE]
      ELSE Let(readDualPort(g.m, reg0, reg1), LAMBDA r :
             IF ~r.ok
               THEN [m |-> r.m, ret |-> FALSE]
               ELSE Let(foldConfigs(r.val0, r.val1, configs, 1), LAMBDA f :
                      IF ~f.ok
                        THEN [m |-> setError(r.m, "InvalidPin"), ret |-> FALSE]
                        ELSE Let(writeDualPort(clearError(r.m, "InvalidPin"),
                                               reg0, reg1, f.port0, f.port1),
                                 LAMBDA w : [m |-> w.m, ret |-> w.ok]))))

\* body shared by SetPinDirection, WritePin, SetPinPolarity, SetPullEnable,
\* SetPullDirection and EnableInputLatch
singlePin(m, reg0, reg1, pin, bit_value, agile) ==
  Let(entryGuard(m, agile), LAMBDA g :
    IF ~g.ok
      THEN [m |-> g.m, ret |-> FALSE]
      ELSE IF pin >= NUM_PINS
             THEN [m |-> setError(g.m, "InvalidPin"), ret |-> FALSE]
             ELSE Let(modifySinglePinRegister(clearError(g.m, "InvalidPin"),
                                              reg0, reg1, pin, bit_value),
                      LAMBDA w : [m |-> w.m, ret |-> w.ok]))

\* body shared by SetMultipleDirections, SetMultipleOutputs,
\* SetMultiplePolarities and EnableMultipleInputLatches
maskBatch(m, reg0, reg1, mask, bit_value, agile, clearsInvalidMask) ==
  Let(entryGuard(m, agile), LAMBDA g :
    IF ~g.ok
      THEN [m |-> g.m, ret |-> FALSE]
      ELSE Let(modifyDualPortByMask(
                 IF clearsInvalidMask THEN clearError(g.m, "InvalidMask") ELSE g.m,
                 reg0, reg1, mask, bit_value),
               LAMBDA w : [m |-> w.m, ret |-> w.ok]))

(***************************************************************************)
(* Public operations, as functions from a machine to [m, ret].             *)
(***************************************************************************)
\* bool SetPinDirection(uint16_t pin, GPIODir dir)
SetPinDirection(m, pin, dir) ==
  singlePin(m, CONFIG_PORT_0, CONFIG_PORT_1, pin, dir = "Input", FALSE)

\* bool SetMultipleDirections(uint16_t mask, GPIODir dir)
SetMultipleDirections(m, mask, dir) ==
  maskBatch(m, CONFIG_PORT_0, CONFIG_PORT_1, mask, dir = "Input", FALSE, TRUE)

\* the bool each list entry is folded with: (config.second == GPIODir::Input) etc.
asBits(configs, one) == [i \in 1..Len(configs) |-> <<configs[i][1], configs[i][2] = one>>]

\* bool SetDirections(initializer_list<pair<uint16_t, GPIODir>>)
SetDirections(m, configs) ==
  listBatch(m, CONFIG_PORT_0, CONFIG_PORT_1, asBits(configs, "Input"), FALSE)

\* bool ReadPin(uint16_t pin)
ReadPin(m, pin) ==
  Let(EnsureInitialized(m), LAMBDA g :
    IF ~g.ok
      THEN [m |-> g.m, ret |-> FALSE]
      ELSE IF pin >= NUM_PINS
             THEN [m |-> setError(g.m, "InvalidPin"), ret |-> FALSE]
             ELSE Let(readRegister(clearError(g.m, "InvalidPin"),
                                   IF pin < 8 THEN INPUT_PORT_0 ELSE INPUT_PORT_1, 0),
                      LAMBDA r :
                        IF ~r.ok
                          THEN [m |-> r.m, ret |-> FALSE]
                          ELSE [m |-> r.m, ret |-> TestBit(r.val, pin % 8)]))

\* WritePin without its range check on the pin
WritePinUnchecked(m, pin, value) ==
  Let(EnsureInitialized(m), LAMBDA g :
    IF ~g.ok
      THEN [m |-> g.m, ret |-> FALSE]
      ELSE Let(modifySinglePinRegister(clearError(g.m, "InvalidPin"),
                                       OUTPUT_PORT_0, OUTPUT_PORT_1, pin, value),
               LAMBDA w : [m |-> w.m, ret |-> w.ok]))

\* bool WritePin(uint16_t pin, bool value)
WritePin(m, pin, value) ==
  singlePin(m, OUTPUT_PORT_0, OUTPUT_PORT_1, pin, value, FALSE)

\* bool SetMultipleOutputs(uint16_t mask, bool value)
SetMultipleOutputs(m, mask, value) ==
  maskBatch(m, OUTPUT_PORT_0, OUTPUT_PORT_1, mask, value, FALSE, TRUE)

\* bool TogglePin(uint16_t pin): val ^= (1 << bit)
TogglePin(m, pin) ==
  Let(EnsureInitialized(m), LAMBDA g :
    IF ~g.ok
      THEN [m |-> g.m, ret |-> FALSE]
      ELSE IF pin >= NUM_PINS
             THEN [m |-> setError(g.m, "InvalidPin"), ret |-> FALSE]
             ELSE Let(IF pin < 8 THEN OUTPUT_PORT_0 ELSE OUTPUT_PORT_1, LAMBDA reg :
                  Let(readRegister(clearError(g.m, "InvalidPin"), reg, 0), LAMBDA r :
                    IF ~r.ok
                      THEN [m |-> r.m, ret |-> FALSE]
                      ELSE Let(writeRegister(r.m, reg,
                                 updateBit(r.val, pin % 8, ~TestBit(r.val, pin % 8))),
                               LAMBDA w : [m |-> w.m, ret |-> w.ok]))))

\* bool WritePins(initializer_list<pair<uint16_t, bool>>)
WritePins(m, configs) ==
  listBatch(m, OUTPUT_PORT_0, OUTPUT_PORT_1, configs, FALSE)

\* ReadPins taking every level from the byte of port 0
ReadPinsPort0(m, pins) ==
  Let(EnsureInitialized(m), LAMBDA g :
    IF ~g.ok
      THEN [m |-> g.m, ret |-> <<>>]
      ELSE Let(readRegister(g.m, INPUT_PORT_0, 0), LAMBDA r0 :
             IF ~r0.ok
               THEN [m |-> r0.m, ret |-> <<>>]
               ELSE Let(readRegister(r0.m, INPUT_PORT_1, 0), LAMBDA r1 :
                      IF ~r1.ok
                        THEN [m |-> r1.m, ret |-> <<>>]
                        ELSE [m |-> r1.m,
                              ret |-> [i \in 1..Len(pins) |->
                                <<pins[i],
                                  IF pins[i] >= NUM_PINS THEN FALSE
                                  ELSE TestBit(r0.val, pins[i] % 8)>>]])))

\* vector<pair<uint16_t, bool>> ReadPins(initializer_list<uint16_t>)
ReadPins(m, pins) ==
  Let(EnsureInitialized(m), LAMBDA g :
    IF ~g.ok
      THEN [m |-> g.m, ret |-> <<>>]
      ELSE Let(readRegister(g.m, INPUT_PORT_0, 0), LAMBDA r0 :
             IF ~r0.ok
               THEN [m |-> r0.m, ret |-> <<>>]
               ELSE Let(readRegister(r0.m, INPUT_PORT_1, 0), LAMBDA r1 :
                      IF ~r1.ok
                        THEN [m |-> r1.m, ret |-> <<>>]
                        ELSE [m |-> r1.m,
                              ret |-> [i \in 1..Len(pins) |->
                                <<pins[i],
                                  IF pins[i] >= NUM_PINS THEN FALSE
                                  ELSE IF pins[i] < 8
                                         THEN TestBit(r0.val, pins[i] % 8)
                                         ELSE TestBit(r1.val, pins[i] % 8)>>]])))

\* bool SetPullEnable(uint16_t pin, bool enable)
SetPullEnable(m, pin, enable) ==
  singlePin(m, PULL_ENABLE_0, PULL_ENABLE_1, pin, enable, TRUE)

\* bool SetPullDirection(uint16_t pin, bool pull_up)
SetPullDirection(m, pin, pull_up) ==
  singlePin(m, PULL_SELECT_0, PULL_SELECT_1, pin, pull_up, TRUE)

\* bool SetPullEnables(initializer_list<pair<uint16_t, bool>>)
SetPullEnables(m, configs) ==
  listBatch(m, PULL_ENABLE_0, PULL_ENABLE_1, configs, TRUE)

\* bool SetPullDirections(initializer_list<pair<uint16_t, bool>>)
SetPullDirections(m, configs) ==
  listBatch(m, PULL_SELECT_0, PULL_SELECT_1, configs, TRUE)

RECURSIVE readAll(_, _, _)
\* consecutive readRegister calls on regs, each returning early on failure
readAll(m, regs, i) ==
  IF i > Len(regs)
    THEN [m |-> m, ok |-> TRUE, vals |-> <<>>]
    ELSE Let(readRegister(m, regs[i], 0), LAMBDA r :
           IF ~r.ok
             THEN [m |-> r.m, ok |-> FALSE, vals |-> <<>>]
             ELSE Let(readAll(r.m, regs, i + 1), LAMBDA rest :
                    [m |-> rest.m, ok |-> rest.ok, vals |-> <<r.val>> \o rest.vals]))

RECURSIVE writeAll(_, _, _, _)
\* consecutive writeRegister calls, each returning early on failure
writeAll(m, regs, vals, i) ==
  IF i > Len(regs)
    THEN [m |-> m, ok |-> TRUE]
    ELSE Let(writeRegister(m, regs[i], vals[i]), LAMBDA w :
           IF ~w.ok THEN w ELSE writeAll(w.m, regs, vals, i + 1))

\* bool GetPullConfiguration(uint16_t& enable_mask, uint16_t& direction_mask)
GetPullConfiguration(m) ==
  Let(agileGuard(m), LAMBDA g :
    IF ~g.ok
      THEN [m |-> g.m, ret |-> FALSE]
      ELSE Let(readAll(g.m, <<PULL_ENABLE_0, PULL_ENABLE_1,
                             PULL_SELECT_0, PULL_SELECT_1>>, 1),
               LAMBDA r : [m |-> r.m, ret |-> r.ok]))

\* val &= ~(0x3 << bit); val |= (uint8_t(level) << bit);
setField2(val, bit, level) ==
  (val - ((val \div (2 ^ bit)) % 4) * (2 ^ bit) + level * (2 ^ bit)) % 256

\* the register of the pin's port, without the step to its upper half
strengthRegLower(pin) == IF pin < 8 THEN DRIVE_STRENGTH_0 ELSE DRIVE_STRENGTH_2

\* the register holding a pin's drive-strength field
strengthReg(pin) ==
  (IF pin < 8 THEN DRIVE_STRENGTH_0 ELSE DRIVE_STRENGTH_2)
  + (IF pin % 8 >= 4 THEN 1 ELSE 0)

\* uint8_t bit = (index % 4) * 2
strengthBit(pin) == ((pin % 8) % 4) * 2

\* bool SetDriveStrength(uint16_t pin, DriveStrength level)
SetDriveStrength(m, pin, level) ==
  Let(agileGuard(m), LAMBDA g :
    IF ~g.ok
      THEN [m |-> g.m, ret |-> FALSE]
      ELSE IF pin >= NUM_PINS
             THEN [m |-> setError(g.m, "InvalidPin"), ret |-> FALSE]
             ELSE Let(readRegister(clearError(g.m, "InvalidPin"), strengthReg(pin), 0),
                      LAMBDA r :
                        IF ~r.ok
                          THEN [m |-> r.m, ret |-> FALSE]
                          ELSE Let(writeRegister(r.m, strengthReg(pin),
                                     setField2(r.val, strengthBit(pin), level)),
                                   LAMBDA w : [m |-> w.m, ret |-> w.ok])))

DriveStrengthRegs == <<DRIVE_STRENGTH_0, DRIVE_STRENGTH_1, DRIVE_STRENGTH_2, DRIVE_STRENGTH_3>>

RECURSIVE foldStrengths(_, _, _)
\* the loop of SetDriveStrengths over configs; ds holds ds0..ds3
foldStrengths(ds, configs, i) ==
  IF i > Len(configs)
    THEN [ok |-> TRUE, ds |-> ds]
    ELSE Let(configs[i], LAMBDA config :
           IF config[1] >= NUM_PINS
             THEN [ok |-> FALSE, ds |-> ds]
             ELSE Let(strengthReg(config[1]) - DRIVE_STRENGTH_0 + 1, LAMBDA k :
                  Let([ds EXCEPT ![k] = setField2(ds[k], strengthBit(config[1]),
                                                  config[2])],
                      LAMBDA next : foldStrengths(next, configs, i + 1))))

\* bool SetDriveStrengths(initializer_list<pair<uint16_t, DriveStrength>>)
SetDriveStrengths(m, configs) ==
  Let(agileGuard(m), LAMBDA g :
    IF ~g.ok
      THEN [m |-> g.m, ret |-> FALSE]
      ELSE Let(readAll(g.m, DriveStrengthRegs, 1), LAMBDA r :
             IF ~r.ok
               THEN [m |-> r.m, ret |-> FALSE]
               ELSE Let(foldStrengths(r.vals, configs, 1), LAMBDA f :
                      IF ~f.ok
                        THEN [m |-> setError(r.m, "InvalidPin"), ret |-> FALSE]
                        ELSE Let(writeAll(clearError(r.m, "InvalidPin"),
                                          DriveStrengthRegs, f.ds, 1),
                                 LAMBDA w : [m |-> w.m, ret |-> w.ok]))))

\* bool ConfigureInterruptMask(uint16_t mask)
ConfigureInterruptMask(m, mask) ==
  Let(agileGuard(m), LAMBDA g :
    IF ~g.ok
      THEN [m |-> g.m, ret |-> FALSE]
      ELSE Let(writeAll(g.m, <<INT_MASK_0, INT_MASK_1>>,
                        <<LoByte(mask), HiByte(mask)>>, 1),
               LAMBDA w : [m |-> w.m, ret |-> w.ok]))

RECURSIVE foldInterrupts(_, _, _)
\* the loop of ConfigureInterrupts over configs on the 16-bit mask
foldInterrupts(mask, configs, i) ==
  IF i > Len(configs)
    THEN [ok |-> TRUE, mask |-> mask]
    ELSE Let(configs[i], LAMBDA config :
           IF config[1] >= NUM_PINS
             THEN [ok |-> FALSE, mask |-> mask]
             ELSE Let(updateBit(mask, config[1], config[2] /= "Enabled"),
                      LAMBDA next : foldInterrupts(next, configs, i + 1)))

\* ConfigureInterrupt with the mask convention inverted: bit set = enabled
ConfigureInterruptInverted(m, pin, state) ==
  Let(agileGuard(m), LAMBDA g :
    IF ~g.ok
      THEN [m |-> g.m, ret |-> FALSE]
      ELSE IF pin >= NUM_PINS
             THEN [m |-> setError(g.m, "InvalidPin"), ret |-> FALSE]
             ELSE Let(readAll(clearError(g.m, "InvalidPin"),
                              <<INT_MASK_0, INT_MASK_1>>, 1),
                      LAMBDA r :
                        IF ~r.ok
                          THEN [m |-> r.m, ret |-> FALSE]
                          ELSE ConfigureInterruptMask(r.m,
                                 updateBit(Word(r.vals[1], r.vals[2]), pin,
                                           state = "Enabled"))))

\* bool ConfigureInterrupt(uint16_t pin, InterruptState state)
ConfigureInterrupt(m, pin, state) ==
  Let(agileGuard(m), LAMBDA g :
    IF ~g.ok
      THEN [m |-> g.m, ret |-> FALSE]
      ELSE IF pin >= NUM_PINS
             THEN [m |-> setError(g.m, "InvalidPin"), ret |-> FALSE]
             ELSE Let(readAll(clearError(g.m, "InvalidPin"),
                              <<INT_MASK_0, INT_MASK_1>>, 1),
                      LAMBDA r :
                        IF ~r.ok
                          THEN [m |-> r.m, ret |-> FALSE]
                          ELSE ConfigureInterruptMask(r.m,
                                 updateBit(Word(r.vals[1], r.vals[2]), pin,
                                           state /= "Enabled"))))

\* bool ConfigureInterrupts(initializer_list<pair<uint16_t, InterruptState>>)
ConfigureInterrupts(m, configs) ==
  Let(agileGuard(m), LAMBDA g :
    IF ~g.ok
      THEN [m |-> g.m, ret |-> FALSE]
      ELSE Let(readAll(g.m, <<INT_MASK_0, INT_MASK_1>>, 1), LAMBDA r :
             IF ~r.ok
               THEN [m |-> r.m, ret |-> FALSE]
               ELSE Let(foldInterrupts(Word(r.vals[1], r.vals[2]), configs, 1),
                        LAMBDA f :
                          IF ~f.ok
                            THEN [m |-> setError(r.m, "InvalidPin"), ret |-> FALSE]
                            ELSE ConfigureInterruptMask(clearError(r.m, "InvalidPin"),
                                                        f.mask))))

\* uint16_t GetInterruptStatus()
GetInterruptStatus(m) ==
  Let(agileGuard(m), LAMBDA g :
    IF ~g.ok
      THEN [m |-> g.m, ret |-> 0]
      ELSE Let(readRegister(g.m, INT_STATUS_0, 0), LAMBDA lo :
           Let(readRegister(lo.m, INT_STATUS_1, 0), LAMBDA hi :
             [m |-> hi.m, ret |-> Word(lo.val, hi.val)])))

\* bool SetOutputMode(bool port_0_open_drain, bool port_1_open_drain)
SetOutputMode(m, port_0_open_drain, port_1_open_drain) ==
  Let(agileGuard(m), LAMBDA g :
    IF ~g.ok
      THEN [m |-> g.m, ret |-> FALSE]
      ELSE Let(writeRegister(g.m, OUTPUT_CONF,
                 (IF port_1_open_drain THEN 2 ELSE 0)
                 + (IF port_0_open_drain THEN 1 ELSE 0)),
               LAMBDA w : [m |-> w.m, ret |-> w.ok]))

\* bool SetPinPolarity(uint16_t pin, Polarity polarity)
SetPinPolarity(m, pin, polarity) ==
  singlePin(m, POLARITY_INV_0, POLARITY_INV_1, pin, polarity = "Inverted", FALSE)

\* bool SetMultiplePolarities(uint16_t mask, Polarity polarity)
SetMultiplePolarities(m, mask, polarity) ==
  maskBatch(m, POLARITY_INV_0, POLARITY_INV_1, mask, polarity = "Inverted", FALSE, FALSE)

\* bool SetPolarities(initializer_list<pair<uint16_t, Polarity>>)
SetPolarities(m, configs) ==
  listBatch(m, POLARITY_INV_0, POLARITY_INV_1, asBits(configs, "Inverted"), FALSE)

\* bool EnableInputLatch(uint16_t pin, bool enable)
EnableInputLatch(m, pin, enable) ==
  singlePin(m, INPUT_LATCH_0, INPUT_LATCH_1, pin, enable, TRUE)

\* bool EnableMultipleInputLatches(uint16_t mask, bool enable)
EnableMultipleInputLatches(m, mask, enable) ==
  maskBatch(m, INPUT_LATCH_0, INPUT_LATCH_1, mask, enable, TRUE, TRUE)

\* bool EnableInputLatches(initializer_list<pair<uint16_t, bool>>)
EnableInputLatches(m, configs) ==
  listBatch(m, INPUT_LATCH_0, INPUT_LATCH_1, configs, TRUE)

\* uint16_t ReadAllInputs()
ReadAllInputs(m) ==
  Let(EnsureInitialized(m), LAMBDA g :
    IF ~g.ok
      THEN [m |-> g.m, ret |-> 0]
      ELSE Let(readPinStates(g.m), LAMBDA p : [m |-> p.m, ret |-> p.val]))

(***************************************************************************)
(* Interrupt callbacks.  A callback that runs is recorded in the machine's *)
(* call sequence: "G" the global callback with its mask, "P" a pin         *)
(* callback with its pin and state.                                        *)
(***************************************************************************)
\* RegisterPinInterrupt that reads the levels but keeps previous_pin_states_
RegisterPinInterruptNoRefresh(m, pin, edge, callback) ==
  Let(EnsureInitialized(m), LAMBDA g :
    IF ~g.ok
      THEN [m |-> g.m, ret |-> FALSE]
      ELSE IF pin >= NUM_PINS
             THEN [m |-> setError(g.m, "InvalidPin"), ret |-> FALSE]
             ELSE IF callback = NoHandler
                    THEN [m |-> clearError(g.m, "InvalidPin"), ret |-> FALSE]
                    ELSE Let(readPinStates(
                               [clearError(g.m, "InvalidPin")
                                  EXCEPT !.d.pin_callbacks[pin] =
                                           [callback |-> callback, edge |-> edge,
                                            registered |-> TRUE]]),
                             LAMBDA p : [m |-> p.m, ret |-> TRUE]))

\* bool RegisterPinInterrupt(uint16_t pin, InterruptEdge edge, callback)
RegisterPinInterrupt(m, pin, edge, callback) ==
  Let(EnsureInitialized(m), LAMBDA g :
    IF ~g.ok
      THEN [m |-> g.m, ret |-> FALSE]
      ELSE IF pin >= NUM_PINS
             THEN [m |-> setError(g.m, "InvalidPin"), ret |-> FALSE]
             ELSE IF callback = NoHandler
                    THEN [m |-> clearError(g.m, "InvalidPin"), ret |-> FALSE]
                    ELSE Let(readPinStates(
                               [clearError(g.m, "InvalidPin")
                                  EXCEPT !.d.pin_callbacks[pin] =
                                           [callback |-> callback, edge |-> edge,
                                            registered |-> TRUE]]),
                             LAMBDA p :
                               [m |-> [p.m EXCEPT !.d.previous_pin_states = p.val],
                                ret |-> TRUE]))

\* UnregisterPinInterrupt that clears the slot of the pin above
UnregisterPinInterruptNext(m, pin) ==
  Let(EnsureInitialized(m), LAMBDA g :
    IF ~g.ok
      THEN [m |-> g.m, ret |-> FALSE]
      ELSE IF pin >= NUM_PINS
             THEN [m |-> setError(g.m, "InvalidPin"), ret |-> FALSE]
             ELSE IF ~g.m.d.pin_callbacks[pin].registered
                    THEN [m |-> clearError(g.m, "InvalidPin"), ret |-> FALSE]
                    ELSE [m |-> [clearError(g.m, "InvalidPin")
                                   EXCEPT !.d.pin_callbacks[(pin + 1) % NUM_PINS].registered = FALSE,
                                          !.d.pin_callbacks[(pin + 1) % NUM_PINS].callback = NoHandler],
                          ret |-> TRUE])

\* bool UnregisterPinInterrupt(uint16_t pin)
UnregisterPinInterrupt(m, pin) ==
  Let(EnsureInitialized(m), LAMBDA g :
    IF ~g.ok
      THEN [m |-> g.m, ret |-> FALSE]
      ELSE IF pin >= NUM_PINS
             THEN [m |-> setError(g.m, "InvalidPin"), ret |-> FALSE]
             ELSE IF ~g.m.d.pin_callbacks[pin].registered
                    THEN [m |-> clearError(g.m, "InvalidPin"), ret |-> FALSE]
                    ELSE [m |-> [clearError(g.m, "InvalidPin")
                                   EXCEPT !.d.pin_callbacks[pin].registered = FALSE,
                                          !.d.pin_callbacks[pin].callback = NoHandler],
                          ret |-> TRUE])

\* void SetInterruptCallback(const std::function<void(uint16_t)>& callback)
SetInterruptCallback(m, callback) ==
  [m |-> [m EXCEPT !.d.irq_callback = callback], ret |-> "void"]

\* the global callback skipped when no pin changed
callGlobalIfChanged(m, interrupt_status) ==
  IF m.d.irq_callback = NoHandler \/ interrupt_status = 0
    THEN m
    ELSE [m EXCEPT !.t = Append(@, [k |-> "G", handler |-> m.d.irq_callback,
                                    mask |-> interrupt_status])]

\* if (irq_callback_) irq_callback_(interrupt_status);
callGlobal(m, interrupt_status) ==
  IF m.d.irq_callback = NoHandler
    THEN m
    ELSE [m EXCEPT !.t = Append(@, [k |-> "G", handler |-> m.d.irq_callback,
                                    mask |-> interrupt_status])]

\* the edge test with Rising and Falling exchanged
shouldCallSwapped(edge, previous_state, current_state) ==
  CASE edge = "Rising" -> previous_state /\ ~current_state
    [] edge = "Falling" -> ~previous_state /\ current_state
    [] OTHER -> previous_state /= current_state

\* should_call of HandleInterrupt: the switch over the registered edge
shouldCall(edge, previous_state, current_state) ==
  CASE edge = "Rising" -> ~previous_state /\ current_state
    [] edge = "Falling" -> previous_state /\ ~current_state
    [] OTHER -> (~previous_state /\ current_state) \/ (previous_state /\ ~current_state)

RECURSIVE dispatchPins(_, _, _, _)
\* the loop "for (uint16_t pin = 0; pin < 16; ++pin)" of HandleInterrupt
dispatchPins(m, interrupt_status, current_states, pin) ==
  IF pin >= NUM_PINS
    THEN m
    ELSE IF ~TestBit(interrupt_status, pin)
           THEN dispatchPins(m, interrupt_status, current_states, pin + 1)
           ELSE IF \/ ~m.d.pin_callbacks[pin].registered
                   \/ m.d.pin_callbacks[pin].callback = NoHandler
                  THEN dispatchPins(m, interrupt_status, current_states, pin + 1)
                  ELSE IF shouldCall(m.d.pin_callbacks[pin].edge,
                                     TestBit(m.d.previous_pin_states, pin),
                                     TestBit(current_states, pin))
                         THEN dispatchPins(
                                [m EXCEPT !.t = Append(@,
                                   [k |-> "P", handler |-> m.d.pin_callbacks[pin].callback,
                                    pin |-> pin, state |-> TestBit(current_states, pin)])],
                                interrupt_status, current_states, pin + 1)
                         ELSE dispatchPins(m, interrupt_status, current_states, pin + 1)

\* the locals of HandleInterrupt when it comes to its callbacks, recorded as
\* "D": interrupt_status, previous_pin_states_ and current_states
dispatched(m, interrupt_status, current_states) ==
  [m EXCEPT !.t = Append(@, [k |-> "D", mask |-> interrupt_status,
                             previous |-> m.d.previous_pin_states,
                             current |-> current_states])]

\* interrupt_status taken from the status registers whatever the variant
interruptStatusFromRegister(m) ==
  Let(GetInterruptStatus(m), LAMBDA st : [m |-> st.m, val |-> st.ret])

\* interrupt_status taken from a comparison of levels whatever the variant
interruptStatusByComparison(m) ==
  Let(readPinStates(m), LAMBDA p :
    [m |-> p.m, val |-> Xor16(p.val, p.m.d.previous_pin_states)])

\* the first part of HandleInterrupt: where interrupt_status comes from
interruptStatus(m) ==
  IF m.d.chip_variant = "PCAL9555A"
    THEN Let(GetInterruptStatus(m), LAMBDA st : [m |-> st.m, val |-> st.ret])
    ELSE Let(readPinStates(m), LAMBDA p :
           [m |-> p.m, val |-> Xor16(p.val, p.m.d.previous_pin_states)])

\* void HandleInterrupt()
HandleInterrupt(m) ==
  Let(EnsureInitialized(m), LAMBDA g :
    IF ~g.ok
      THEN [m |-> g.m, ret |-> "void"]
      ELSE Let(interruptStatus(g.m), LAMBDA st :
           Let(readPinStates(st.m), LAMBDA cur :
           Let(dispatchPins(callGlobal(dispatched(cur.m, st.val, cur.val), st.val),
                            st.val, cur.val, 0),
               LAMBDA done :
             [m |-> [done EXCEPT !.d.previous_pin_states = cur.val],
              ret |-> "void"]))))

RECURSIVE writeEach(_, _, _, _)
\* consecutive writeRegister calls whose results are ignored
writeEach(m, regs, vals, i) ==
  IF i > Len(regs) THEN m
  ELSE Let(writeRegister(m, regs[i], vals[i]), LAMBDA w :
         writeEach(w.m, regs, vals, i + 1))

\* the registers ResetToDefault writes on every chip, in order, and the values
ResetBaseRegs ==
  <<OUTPUT_PORT_0, OUTPUT_PORT_1, POLARITY_INV_0, POLARITY_INV_1,
    CONFIG_PORT_0, CONFIG_PORT_1>>

ResetBaseVals == <<255, 255, 0, 0, 255, 255>>

\* the registers ResetToDefault writes on the PCAL9555A only, and the values
ResetAgileRegs ==
  <<DRIVE_STRENGTH_0, DRIVE_STRENGTH_1, DRIVE_STRENGTH_2, DRIVE_STRENGTH_3,
    INPUT_LATCH_0, INPUT_LATCH_1, PULL_ENABLE_0, PULL_ENABLE_1,
    PULL_SELECT_0, PULL_SELECT_1, INT_MASK_0, INT_MASK_1, OUTPUT_CONF>>

ResetAgileVals == <<255, 255, 255, 255, 0, 0, 255, 255, 255, 255, 255, 255, 0>>

\* ResetToDefault writing the Agile I/O registers whatever the variant
ResetToDefaultAlways(m) ==
  Let(EnsureInitialized(m), LAMBDA g :
    IF ~g.ok
      THEN [m |-> g.m, ret |-> "void"]
      ELSE Let(writeEach(g.m, ResetBaseRegs, ResetBaseVals, 1), LAMBDA b :
           Let(writeEach(b, ResetAgileRegs, ResetAgileVals, 1), LAMBDA a :
             [m |-> a, ret |-> "void"])))

\* void ResetToDefault()
ResetToDefault(m) ==
  Let(EnsureInitialized(m), LAMBDA g :
    IF ~g.ok
      THEN [m |-> g.m, ret |-> "void"]
      ELSE Let(writeEach(g.m, ResetBaseRegs, ResetBaseVals, 1), LAMBDA b :
             IF b.d.chip_variant /= "PCAL9555A"
               THEN [m |-> b, ret |-> "void"]
               ELSE Let(writeEach(b, ResetAgileRegs, ResetAgileVals, 1), LAMBDA a :
                      [m |-> a, ret |-> "void"])))

\* changeAddressImpl that goes back to the old address when the verification
\* read fails
changeAddressImplRollback(m, new_bits) ==
  Let(I2cSetAddressPins(m, TestBit(new_bits, 0), TestBit(new_bits, 1),
                        TestBit(new_bits, 2)),
      LAMBDA gpio :
  Let(readRegister([gpio.m EXCEPT !.d.address_bits = new_bits,
                                  !.d.dev_addr = calculateAddress(new_bits),
                                  !.d.a0_level = TestBit(new_bits, 0),
                                  !.d.a1_level = TestBit(new_bits, 1),
                                  !.d.a2_level = TestBit(new_bits, 2),
                                  !.d.initialized = FALSE],
                   INPUT_PORT_0, 0),
      LAMBDA test :
        IF ~test.ok
          THEN [m |-> [setError(test.m, "I2CReadFail")
                         EXCEPT !.d.address_bits = m.d.address_bits,
                                !.d.dev_addr = m.d.dev_addr,
                                !.d.a0_level = m.d.a0_level,
                                !.d.a1_level = m.d.a1_level,
                                !.d.a2_level = m.d.a2_level,
                                !.d.initialized = m.d.initialized],
                ret |-> FALSE]
          ELSE Let(selectVariant(clearError(clearError(test.m, "I2CReadFail"),
                                            "InvalidAddress")),
                   LAMBDA v : [m |-> [v EXCEPT !.d.initialized = TRUE], ret |-> TRUE])))

\* bool changeAddressImpl(uint8_t new_bits)
changeAddressImpl(m, new_bits) ==
  Let(I2cSetAddressPins(m, TestBit(new_bits, 0), TestBit(new_bits, 1),
                        TestBit(new_bits, 2)),
      LAMBDA gpio :
  Let(readRegister([gpio.m EXCEPT !.d.address_bits = new_bits,
                                  !.d.dev_addr = calculateAddress(new_bits),
                                  !.d.a0_level = TestBit(new_bits, 0),
                                  !.d.a1_level = TestBit(new_bits, 1),
                                  !.d.a2_level = TestBit(new_bits, 2),
                                  !.d.initialized = FALSE],
                   INPUT_PORT_0, 0),
      LAMBDA test :
        IF ~test.ok
          THEN [m |-> setError(test.m, "I2CReadFail"), ret |-> FALSE]
          ELSE Let(selectVariant(clearError(clearError(test.m, "I2CReadFail"),
                                            "InvalidAddress")),
                   LAMBDA v : [m |-> [v EXCEPT !.d.initialized = TRUE], ret |-> TRUE])))

\* bool ChangeAddress(bool a0_level, bool a1_level, bool a2_level)
ChangeAddressPins(m, a0_level, a1_level, a2_level) ==
  changeAddressImpl(m, (IF a0_level THEN 1 ELSE 0) + (IF a1_level THEN 2 ELSE 0)
                       + (IF a2_level THEN 4 ELSE 0))

\* ChangeAddress(uint8_t) without its range check
ChangeAddressUnchecked(m, address) ==
  changeAddressImpl(m, And7(address - BASE_ADDRESS))

\* bool ChangeAddress(uint8_t address)
ChangeAddress(m, address) ==
  IF address < BASE_ADDRESS \/ address > MAX_ADDRESS
    THEN [m |-> setError(m, "InvalidAddress"), ret |-> FALSE]
    ELSE changeAddressImpl(m, And7(address - BASE_ADDRESS))

\* void SetRetries(int retries)
SetRetries(m, n) == [m |-> [m EXCEPT !.d.retries = n], ret |-> "void"]

\* ClearErrorFlags that drops every flag, whatever its mask
ClearErrorFlagsAll(m, mask) ==
  [m |-> [m EXCEPT !.d.error_flags = {}], ret |-> "void"]

\* void ClearErrorFlags(uint16_t mask = 0xFFFF), void ClearError(Error e)
ClearErrorFlags(m, mask) ==
  [m |-> [m EXCEPT !.d.error_flags = @ \ mask], ret |-> "void"]

\* bool EnsureInitialized() as a public operation
EnsureInitializedOp(m) ==
  Let(EnsureInitialized(m), LAMBDA e : [m |-> e.m, ret |-> e.ok])

\* bool readRegister(uint8_t reg, uint8_t& value) called by a derived class
readRegisterOp(m, reg) ==
  Let(readRegister(m, reg, 0), LAMBDA r : [m |-> r.m, ret |-> r.ok])

\* bool writeRegister(uint8_t reg, uint8_t value) called by a derived class
writeRegisterOp(m, reg, value) ==
  Let(writeRegister(m, reg, value), LAMBDA w : [m |-> w.m, ret |-> w.ok])

(***************************************************************************)
(* Construction.                                                           *)
(***************************************************************************)
\* the members both constructors initialize the same way
Constructed(bits, variant) ==
  [dev_addr |-> calculateAddress(bits),
   address_bits |-> bits,
   retries |-> DefaultRetries,
   error_flags |-> {},
   irq_callback |-> NoHandler,
   pin_callbacks |-> [pin \in 0..(NUM_PINS - 1) |->
                        [callback |-> NoHandler, edge |-> "Both", registered |-> FALSE]],
   previous_pin_states |-> 0,
   initialized |-> FALSE,
   a0_level |-> TestBit(bits, 0),
   a1_level |-> TestBit(bits, 1),
   a2_level |-> TestBit(bits, 2),
   chip_variant |-> "Unknown",
   user_variant |-> variant]

\* PCAL95555(I2cType* bus, bool a0_level, bool a1_level, bool a2_level, ChipVariant)
ConstructPins(a0_level, a1_level, a2_level, variant) ==
  Constructed((IF a0_level THEN 1 ELSE 0) + (IF a1_level THEN 2 ELSE 0)
              + (IF a2_level THEN 4 ELSE 0), variant)

\* the address constructor without its range check
ConstructUnclamped(address, variant) ==
  Constructed(And7(address - BASE_ADDRESS), variant)

\* PCAL95555(I2cType* bus, uint8_t address, ChipVariant): the address is clamped
Construct(address, variant) ==
  LET clamped == IF address < BASE_ADDRESS THEN BASE_ADDRESS
                 ELSE IF address > MAX_ADDRESS THEN MAX_ADDRESS
                 ELSE address
  IN Constructed(And7(clamped - BASE_ADDRESS), variant)

(***************************************************************************)
(* Devices on the bus.                                                     *)
(***************************************************************************)
\* register contents after power-on (datasheet defaults, as the test's MockI2C)
PowerOnRegs ==
  [r \in Regs |->
     IF r \in {INPUT_PORT_0, INPUT_PORT_1, OUTPUT_PORT_0, OUTPUT_PORT_1,
               CONFIG_PORT_0, CONFIG_PORT_1, DRIVE_STRENGTH_0, DRIVE_STRENGTH_1,
               DRIVE_STRENGTH_2, DRIVE_STRENGTH_3, PULL_ENABLE_0, PULL_ENABLE_1,
               PULL_SELECT_0, PULL_SELECT_1, INT_MASK_0, INT_MASK_1}
       THEN 255 ELSE 0]

\* a device some earlier session left configured: mixed bits in every register
UsedRegs ==
  [r \in Regs |->
     IF r \in {INT_STATUS_0, INT_STATUS_1} THEN 0
     ELSE IF r = OUTPUT_CONF THEN 1
     ELSE IF r % 2 = 0 THEN 165 ELSE 60]

HwVariants == {"PCA9555", "PCAL9555A"}

\* the buses an initial state may hold: one chip of each kind, at either address
Buses(files) ==
  {[hw |-> h, regs |-> f] : h \in {x \in [DevAddrs -> HwVariants] : x[BASE_ADDRESS] /= x[BASE_ADDRESS + 1]}, f \in [DevAddrs -> files]}

\* the threads that may share one driver object
Threads == {1, 2}

\* a thread that is not inside a driver operation
Idle == [op |-> "Idle", pc |-> 0, lo |-> 0, status |-> 0]

\* no invocation in flight, none ever overlapped, no level changed, no
\* output bit written
NoRun == [inv |-> [t \in Threads |-> Idle], overlapped |-> FALSE,
          changes |-> 0, edits |-> {}]

\* a constructed driver on a bus
InitWith(addresses, variants, buses) ==
  /\ drv \in {Construct(a, v) : a \in addresses, v \in variants}
  /\ bus \in buses
  /\ trace = <<>>
  /\ last = [op |-> "Construct", args |-> <<>>, ret |-> "void", d |-> drv, b |-> bus]
  /\ calls = 0
  /\ run = NoRun

\* an operation's effect on the state; last keeps the driver and the bus the
\* operation started from
Call(name, args, result) ==
  \E r \in {result} :
    /\ drv' = r.m.d
    /\ bus' = r.m.b
    /\ trace' = r.m.t
    /\ last' = [op |-> name, args |-> args, ret |-> r.ret, d |-> drv, b |-> bus]

\* an operation that does not count towards MaxCalls
Free(A) == A /\ UNCHANGED <<calls, run>>

\* an operation that counts towards MaxCalls
Counted(A) == calls < MaxCalls /\ A /\ calls' = calls + 1 /\ UNCHANGED run

(***************************************************************************)
(* Actions: one per public operation.                                      *)
(***************************************************************************)
CallEnsureInitialized(script) ==
  Call("EnsureInitialized", <<>>, EnsureInitializedOp(Machine(script)))

CallChangeAddress(address, script) ==
  Call("ChangeAddress", <<address>>, ChangeAddress(Machine(script), address))

CallChangeAddressPins(a0, a1, a2, script) ==
  Call("ChangeAddressPins", <<a0, a1, a2>>, ChangeAddressPins(Machine(script), a0, a1, a2))

CallSetRetries(n) ==
  Call("SetRetries", <<n>>, SetRetries(Machine(<<>>), n))

CallClearErrorFlags(mask) ==
  Call("ClearErrorFlags", <<mask>>, ClearErrorFlags(Machine(<<>>), mask))

CallReadPin(pin, script) ==
  Call("ReadPin", <<pin>>, ReadPin(Machine(script), pin))

CallSetPinDirection(pin, dir, script) ==
  Call("SetPinDirection", <<pin, dir>>, SetPinDirection(Machine(script), pin, dir))

CallReadRegister(reg, script) ==
  Call("readRegister", <<reg>>, readRegisterOp(Machine(script), reg))

CallWriteRegister(reg, value, script) ==
  Call("writeRegister", <<reg, value>>, writeRegisterOp(Machine(script), reg, value))

CallSetPullEnable(pin, enable, script) ==
  Call("SetPullEnable", <<pin, enable>>, SetPullEnable(Machine(script), pin, enable))

CallSetPullDirection(pin, pull_up, script) ==
  Call("SetPullDirection", <<pin, pull_up>>, SetPullDirection(Machine(script), pin, pull_up))

CallSetPullEnables(configs, script) ==
  Call("SetPullEnables", <<configs>>, SetPullEnables(Machine(script), configs))

CallSetPullDirections(configs, script) ==
  Call("SetPullDirections", <<configs>>, SetPullDirections(Machine(script), configs))

CallGetPullConfiguration(script) ==
  Call("GetPullConfiguration", <<>>, GetPullConfiguration(Machine(script)))

CallSetDriveStrength(pin, level, script) ==
  Call("SetDriveStrength", <<pin, level>>, SetDriveStrength(Machine(script), pin, level))

CallSetDriveStrengths(configs, script) ==
  Call("SetDriveStrengths", <<configs>>, SetDriveStrengths(Machine(script), configs))

CallEnableInputLatch(pin, enable, script) ==
  Call("EnableInputLatch", <<pin, enable>>, EnableInputLatch(Machine(script), pin, enable))

CallEnableMultipleInputLatches(mask, enable, script) ==
  Call("EnableMultipleInputLatches", <<mask, enable>>,
       EnableMultipleInputLatches(Machine(script), mask, enable))

CallEnableInputLatches(configs, script) ==
  Call("EnableInputLatches", <<configs>>, EnableInputLatches(Machine(script), configs))

CallConfigureInterrupt(pin, state, script) ==
  Call("ConfigureInterrupt", <<pin, state>>, ConfigureInterrupt(Machine(script), pin, state))

CallConfigureInterrupts(configs, script) ==
  Call("ConfigureInterrupts", <<configs>>, ConfigureInterrupts(Machine(script), configs))

CallConfigureInterruptMask(mask, script) ==
  Call("ConfigureInterruptMask", <<mask>>, ConfigureInterruptMask(Machine(script), mask))

CallGetInterruptStatus(script) ==
  Call("GetInterruptStatus", <<>>, GetInterruptStatus(Machine(script)))

CallSetOutputMode(port_0_open_drain, port_1_open_drain, script) ==
  Call("SetOutputMode", <<port_0_open_drain, port_1_open_drain>>,
       SetOutputMode(Machine(script), port_0_open_drain, port_1_open_drain))

CallSetDirections(configs, script) ==
  Call("SetDirections", <<configs>>, SetDirections(Machine(script), configs))

CallWritePins(configs, script) ==
  Call("WritePins", <<configs>>, WritePins(Machine(script), configs))

CallSetPolarities(configs, script) ==
  Call("SetPolarities", <<configs>>, SetPolarities(Machine(script), configs))

CallWritePin(pin, value, script) ==
  Call("WritePin", <<pin, value>>, WritePin(Machine(script), pin, value))

CallTogglePin(pin, script) ==
  Call("TogglePin", <<pin>>, TogglePin(Machine(script), pin))

CallReadPins(pins, script) ==
  Call("ReadPins", <<pins>>, ReadPins(Machine(script), pins))

CallSetPinPolarity(pin, polarity, script) ==
  Call("SetPinPolarity", <<pin, polarity>>, SetPinPolarity(Machine(script), pin, polarity))

CallResetToDefault(script) ==
  Call("ResetToDefault", <<>>, ResetToDefault(Machine(script)))

CallSetMultipleOutputs(mask, value, script) ==
  Call("SetMultipleOutputs", <<mask, value>>,
       SetMultipleOutputs(Machine(script), mask, value))

CallSetMultipleDirections(mask, dir, script) ==
  Call("SetMultipleDirections", <<mask, dir>>,
       SetMultipleDirections(Machine(script), mask, dir))

CallSetMultiplePolarities(mask, polarity, script) ==
  Call("SetMultiplePolarities", <<mask, polarity>>,
       SetMultiplePolarities(Machine(script), mask, polarity))

CallRegisterPinInterrupt(pin, edge, callback, script) ==
  Call("RegisterPinInterrupt", <<pin, edge, callback>>,
       RegisterPinInterrupt(Machine(script), pin, edge, callback))

CallUnregisterPinInterrupt(pin, script) ==
  Call("UnregisterPinInterrupt", <<pin>>, UnregisterPinInterrupt(Machine(script), pin))

CallSetInterruptCallback(callback) ==
  Call("SetInterruptCallback", <<callback>>,
       SetInterruptCallback(Machine(<<>>), callback))

CallHandleInterrupt(script) ==
  Call("HandleInterrupt", <<>>, HandleInterrupt(Machine(script)))

\* the world outside the driver: the pins of the addressed device take new
\* levels and a PCAL9555A latches an interrupt status
PinsChange(port0, port1, status0, status1) ==
  /\ drv.dev_addr \in DevAddrs
  /\ bus.hw[drv.dev_addr] = "PCAL9555A" \/ (status0 = 0 /\ status1 = 0)
  /\ bus' = [bus EXCEPT
       !.regs[drv.dev_addr] =
          [r \in Regs |->
             CASE r = INPUT_PORT_0 -> port0
               [] r = INPUT_PORT_1 -> port1
               [] r = INT_STATUS_0 -> status0
               [] r = INT_STATUS_1 -> status1
               [] OTHER -> bus.regs[drv.dev_addr][r]]]
  /\ trace' = <<>>
  /\ last' = [op |-> "PinsChange", args |-> <<>>, ret |-> "void", d |-> drv, b |-> bus']
  /\ UNCHANGED drv

(***************************************************************************)
(* Reading the record of the last operation.                               *)
(***************************************************************************)
\* the transport calls of kind k in the trace, in order
Calls(k) == SelectSeq(trace, LAMBDA c : c.k = k)

Reads == Calls("R")

Writes == Calls("W")

\* the operation ran initialize(): only initialize() calls the transport's
\* EnsureInitialized
RanInitialize == Calls("E") /= <<>>

\* index in the trace of the first read that succeeded, 0 if there is none
FirstGoodRead ==
  IF \E i \in 1..Len(trace) : trace[i].k = "R" /\ trace[i].ok
    THEN CHOOSE i \in 1..Len(trace) :
           /\ trace[i].k = "R" /\ trace[i].ok
           /\ \A j \in 1..(i - 1) : ~(trace[j].k = "R" /\ trace[j].ok)
    ELSE 0

(***************************************************************************)
(* Initialization and address changes: the variant state machine.          *)
(***************************************************************************)
InitInit == InitWith({BASE_ADDRESS}, Variants, Buses({UsedRegs}))

InitNext ==
  \/ \E q \in Scripts : Free(CallEnsureInitialized(q))
  \/ \E q \in Scripts : Free(CallChangeAddress(BASE_ADDRESS + 1, q))
  \/ Free(CallChangeAddress(MAX_ADDRESS + 1, <<>>))
  \/ \E q \in Scripts : Free(CallChangeAddressPins(FALSE, FALSE, FALSE, q))
  \/ \E q \in Scripts : Free(CallReadPin(0, q))

SpecInit == InitInit /\ [][InitNext]_vars

\* the variant the sandwich of detectChipVariant decides on, by the results of
\* its baseline read, its probe of OUTPUT_CONF and its recovery read
SandwichVariant(baseline, probe, recovery) ==
  IF baseline /\ recovery
    THEN (IF probe THEN "PCAL9555A" ELSE "PCA9555")
    ELSE "Unknown"

\* the last operation ran the first initialization of an auto-detecting driver
\* and got past the verification read, so that detection ran
FirstDetection ==
  /\ RanInitialize
  /\ last.d.user_variant = "Unknown"
  /\ last.d.chip_variant = "Unknown"
  /\ FirstGoodRead > 0

C2_InitializedHasVariant ==
  drv.initialized => drv.chip_variant \in {"PCA9555", "PCAL9555A"}

\* C3 as stated: once the variant is Base or Extended no operation changes it.
C3_ChangesAtMostOnce ==
  last.d.chip_variant /= "Unknown" => drv.chip_variant = last.d.chip_variant

\* the last operation ran detectChipVariant or took the forced variant
RanSelectVariant ==
  \/ last.op \in {"ChangeAddress", "ChangeAddressPins"} /\ last.ret = TRUE
  \/ RanInitialize /\ FirstGoodRead > 0

\* C3, amended: the variant never returns to Unknown; a variant forced at
\* construction is the only value the variant ever takes besides Unknown; an
\* operation changes the variant only by selecting it again, which
\* initialize() does on an uninitialized driver and every address change
\* does once the new address answers; with auto-detection such a step can
\* replace Base by Extended and Extended by Base.
C3_VariantSteps ==
  /\ last.d.chip_variant /= "Unknown" => drv.chip_variant /= "Unknown"
  /\ drv.user_variant /= "Unknown"
       => drv.chip_variant \in {"Unknown", drv.user_variant}
  /\ drv.chip_variant /= last.d.chip_variant => RanSelectVariant
  /\ drv.user_variant = last.d.user_variant

\* an address change moved an auto-detecting driver from a PCAL9555A to a
\* PCA9555 and replaced the detected variant
C3_Witness ==
  /\ last.op = "ChangeAddress"
  /\ last.d.chip_variant = "PCAL9555A"
  /\ drv.chip_variant = "PCA9555"
  /\ drv.user_variant = "Unknown"

(***************************************************************************)
(* The Agile-I/O operations on a driver whose variant is forced to PCA9555. *)
(***************************************************************************)
ExtendedOnly ==
  {"SetPullEnable", "SetPullDirection", "SetPullEnables", "SetPullDirections",
   "GetPullConfiguration", "SetDriveStrength", "SetDriveStrengths",
   "EnableInputLatch", "EnableMultipleInputLatches", "EnableInputLatches",
   "ConfigureInterrupt", "ConfigureInterrupts", "ConfigureInterruptMask",
   "GetInterruptStatus", "SetOutputMode"}

\* what an operation returns when it fails: false, or 0 from GetInterruptStatus
FailureValue(op) == IF op = "GetInterruptStatus" THEN 0 ELSE FALSE

GuardInit == InitWith({BASE_ADDRESS}, {"PCA9555"}, Buses({UsedRegs}))

GuardNext ==
  \/ \E q \in ShortScripts : Free(CallEnsureInitialized(q))
  \/ Free(CallClearErrorFlags(Errors))
  \/ \E p \in {0, NUM_PINS}, q \in ShortScripts : Free(CallSetPullEnable(p, TRUE, q))
  \/ \E q \in ShortScripts : Free(CallSetPullDirection(9, FALSE, q))
  \/ \E q \in ShortScripts : Free(CallSetPullEnables(<<<<0, TRUE>>, <<9, FALSE>>>>, q))
  \/ \E q \in ShortScripts : Free(CallSetPullDirections(<<<<2, TRUE>>>>, q))
  \/ \E q \in ShortScripts : Free(CallGetPullConfiguration(q))
  \/ \E q \in ShortScripts : Free(CallSetDriveStrength(5, 2, q))
  \/ \E q \in ShortScripts : Free(CallSetDriveStrengths(<<<<0, 1>>, <<12, 3>>>>, q))
  \/ \E q \in ShortScripts : Free(CallEnableInputLatch(15, TRUE, q))
  \/ \E q \in ShortScripts : Free(CallEnableMultipleInputLatches(257, TRUE, q))
  \/ \E q \in ShortScripts : Free(CallEnableInputLatches(<<<<1, TRUE>>>>, q))
  \/ \E q \in ShortScripts : Free(CallConfigureInterrupt(3, "Enabled", q))
  \/ \E q \in ShortScripts : Free(CallConfigureInterrupts(<<<<8, "Enabled">>>>, q))
  \/ \E q \in ShortScripts : Free(CallConfigureInterruptMask(0, q))
  \/ \E q \in ShortScripts : Free(CallGetInterruptStatus(q))
  \/ \E q \in ShortScripts : Free(CallSetOutputMode(TRUE, FALSE, q))

SpecGuard == GuardInit /\ [][GuardNext]_vars

\* the last operation was an Agile-I/O operation on a driver forced to PCA9555
ForcedBaseCase ==
  /\ last.op \in ExtendedOnly
  /\ last.d.user_variant = "PCA9555"

\* C4 as stated: on a driver forced to Base every extended-only operation
\* returns its failure value, sets UnsupportedFeature and never calls Write.
C4_AlwaysUnsupported ==
  ForcedBaseCase =>
    /\ last.ret = FailureValue(last.op)
    /\ "UnsupportedFeature" \in drv.error_flags
    /\ Writes = <<>>

\* C4, amended: on a driver forced to Base every extended-only operation
\* returns its failure value and never calls Write; it sets UnsupportedFeature
\* when the driver is initialized or its lazy initialization succeeds; when
\* the lazy initialization fails it sets I2CReadFail and leaves
\* UnsupportedFeature as it was.
C4_UnsupportedOnceInitialized ==
  ForcedBaseCase =>
    /\ last.ret = FailureValue(last.op)
    /\ Writes = <<>>
    /\ IF drv.initialized
         THEN "UnsupportedFeature" \in drv.error_flags
         ELSE /\ ~last.d.initialized
              /\ "I2CReadFail" \in drv.error_flags
              /\ ("UnsupportedFeature" \in drv.error_flags)
                   = ("UnsupportedFeature" \in last.d.error_flags)

\* an extended-only operation whose lazy initialization failed: it returned
\* failure with I2CReadFail and without UnsupportedFeature
C4_Witness ==
  /\ ForcedBaseCase
  /\ last.op = "SetDriveStrength"
  /\ ~drv.initialized
  /\ last.ret = FALSE
  /\ "UnsupportedFeature" \notin drv.error_flags
  /\ "I2CReadFail" \in drv.error_flags

RetryInit == InitWith({BASE_ADDRESS}, {"Unknown"}, Buses({UsedRegs}))

RetryNext ==
  \/ \E n \in (0 - 1)..MaxRetries : Free(CallSetRetries(n))
  \/ \E r \in {INPUT_PORT_0, OUTPUT_CONF}, q \in Scripts : Free(CallReadRegister(r, q))
  \/ \E v \in {0, 255}, q \in Scripts : Free(CallWriteRegister(CONFIG_PORT_0, v, q))

SpecRetry == RetryInit /\ [][RetryNext]_vars

\* what the claim says of one transaction of the given kind: the attempts go
\* to the register asked for; either some attempt within the first
\* retries + 1 succeeded, it was the last one, the call returned true and the
\* flag is clear, or all retries + 1 attempts failed, the call returned
\* false and the flag is set
RetryLaw(op, kind, flag) ==
  (last.op = op /\ last.d.retries >= 0) =>
    LET n == last.d.retries
        k == Len(trace)
    IN /\ \A i \in 1..k : trace[i].k = kind /\ trace[i].reg = last.args[1]
       /\ \/ /\ k \in 1..(n + 1)
             /\ trace[k].ok
             /\ \A i \in 1..(k - 1) : ~trace[i].ok
             /\ last.ret = TRUE
             /\ flag \notin drv.error_flags
          \/ /\ k = n + 1
             /\ \A i \in 1..k : ~trace[i].ok
             /\ last.ret = FALSE
             /\ flag \in drv.error_flags

\* C6: with retries = n >= 0 a register read (write) that meets k <= n
\* failures and then a success succeeds after k + 1 attempts with I2CReadFail
\* (I2CWriteFail) clear, also when the flag was set before; one that meets
\* n + 1 failures fails after exactly n + 1 attempts with the flag set; a
\* freshly constructed driver makes 2 attempts.
C6_RetryLaw ==
  /\ RetryLaw("readRegister", "R", "I2CReadFail")
  /\ RetryLaw("writeRegister", "W", "I2CWriteFail")
  /\ last.op = "Construct" => drv.retries + 1 = 2

\* a read that failed once and then succeeded, within the retries, and
\* cleared the I2CReadFail flag an earlier failed read had left
C6_Witness ==
  /\ last.op = "readRegister"
  /\ "I2CReadFail" \in last.d.error_flags
  /\ Len(trace) = 2
  /\ ~trace[1].ok /\ trace[2].ok
  /\ last.ret = TRUE
  /\ "I2CReadFail" \notin drv.error_flags

(***************************************************************************)
(* Error flags over the operations that set and clear them.                *)
(***************************************************************************)
FlagsInit == InitWith({BASE_ADDRESS}, {"Unknown"}, Buses({UsedRegs}))

\* a transport that is down at first, or one that fails a write for good
\* after the read before it worked
FlagScripts == Outages \cup {<<TRUE, FALSE, FALSE>>}

FlagsNext ==
  \/ \E q \in FlagScripts : Free(CallEnsureInitialized(q))
  \/ \E p \in {0, NUM_PINS}, q \in FlagScripts : Free(CallReadPin(p, q))
  \/ \E p \in {0, NUM_PINS}, q \in FlagScripts :
       Free(CallSetPinDirection(p, "Input", q))
  \/ \E q \in FlagScripts : Free(CallSetPullEnable(0, TRUE, q))
  \/ Free(CallChangeAddress(MAX_ADDRESS + 1, <<>>))
  \/ \E q \in FlagScripts : Free(CallChangeAddressPins(FALSE, FALSE, FALSE, q))
  \/ \E mask \in {Errors, {"I2CReadFail"}} : Free(CallClearErrorFlags(mask))

SpecFlags == FlagsInit /\ [][FlagsNext]_vars

\* the flags the last operation cleared
Gone == last.d.error_flags \ drv.error_flags

\* the last operation was not an explicit clear
NotAClear == last.op \notin {"Construct", "ClearErrorFlags"}

PinsInit == InitWith({BASE_ADDRESS}, {"Unknown"}, Buses({UsedRegs}))

PinsNext ==
  \/ \E q \in ShortScripts : Free(CallEnsureInitialized(q))
  \/ \E p \in 0..(NUM_PINS + 1), d \in {"Input", "Output"}, q \in Outages :
       Counted(CallSetPinDirection(p, d, q))

SpecPins == PinsInit /\ [][PinsNext]_vars

\* the device registers after the last operation are those before it, but for
\* bit (pin mod 8) of register reg, which is 1 iff set
OnlyBitChanged(reg, pin, set) ==
  LET a == drv.dev_addr
  IN /\ drv.dev_addr = last.d.dev_addr
     /\ \A x \in DevAddrs, r \in Regs :
          (x /= a \/ r /= reg) => bus.regs[x][r] = last.b.regs[x][r]
     /\ \A b \in 0..7 :
          TestBit(bus.regs[a][reg], b)
            = IF b = pin % 8 THEN set ELSE TestBit(last.b.regs[a][reg], b)

\* the part of C8 about valid pins: a successful SetPinDirection(p, d) sets
\* the pin's bit of its port's direction register to 1 iff d = Input and
\* leaves every other bit and register alone
DirectionWritten ==
  (last.op = "SetPinDirection" /\ last.args[1] < NUM_PINS /\ last.ret = TRUE) =>
    OnlyBitChanged(IF last.args[1] < 8 THEN CONFIG_PORT_0 ELSE CONFIG_PORT_1,
                   last.args[1], last.args[2] = "Input")

\* C8 as stated: the valid-pin part, and for p >= 16 the call returns false,
\* sets InvalidPin and issues no transport write.
C8_DirectionOrInvalidPin ==
  /\ DirectionWritten
  /\ (last.op = "SetPinDirection" /\ last.args[1] >= NUM_PINS) =>
       /\ last.ret = FALSE
       /\ "InvalidPin" \in drv.error_flags
       /\ Writes = <<>>

\* C8, amended: the valid-pin part as stated; for p >= 16 the call returns
\* false and issues no transport write, and it sets InvalidPin when the
\* driver is initialized or its lazy initialization succeeds; when the lazy
\* initialization fails it sets I2CReadFail and leaves InvalidPin as it was.
C8_DirectionOrRejected ==
  /\ DirectionWritten
  /\ (last.op = "SetPinDirection" /\ last.args[1] >= NUM_PINS) =>
       /\ last.ret = FALSE
       /\ Writes = <<>>
       /\ bus.regs = last.b.regs
       /\ IF drv.initialized
            THEN "InvalidPin" \in drv.error_flags
            ELSE /\ "I2CReadFail" \in drv.error_flags
                 /\ ("InvalidPin" \in drv.error_flags)
                      = ("InvalidPin" \in last.d.error_flags)

\* pin 9 made an input: bit 1 of CONFIG_PORT_1 went from 0 to 1 (60 to 62)
\* and CONFIG_PORT_0 kept its 165
C8_Witness ==
  /\ last.op = "SetPinDirection"
  /\ last.args = <<9, "Input">>
  /\ last.ret = TRUE
  /\ last.b.regs[drv.dev_addr][CONFIG_PORT_1] = 60
  /\ bus.regs[drv.dev_addr][CONFIG_PORT_1] = 62
  /\ bus.regs[drv.dev_addr][CONFIG_PORT_0] = 165

(***************************************************************************)
(* The list-based operations.                                              *)
(***************************************************************************)
ListOps ==
  {"WritePins", "SetDirections", "SetPolarities", "SetPullEnables",
   "SetPullDirections", "EnableInputLatches"}

AllListOps == ListOps \cup {"SetDriveStrengths", "ConfigureInterrupts"}

\* the pair of port registers a list-based operation works on
PortRegs(op) ==
  CASE op = "WritePins" -> <<OUTPUT_PORT_0, OUTPUT_PORT_1>>
    [] op = "SetDirections" -> <<CONFIG_PORT_0, CONFIG_PORT_1>>
    [] op = "SetPolarities" -> <<POLARITY_INV_0, POLARITY_INV_1>>
    [] op = "SetPullEnables" -> <<PULL_ENABLE_0, PULL_ENABLE_1>>
    [] op = "SetPullDirections" -> <<PULL_SELECT_0, PULL_SELECT_1>>
    [] op = "EnableInputLatches" -> <<INPUT_LATCH_0, INPUT_LATCH_1>>

\* the pins the lists are made of: two on port 0, one on port 1
BatchPins == {0, 2, 9}

\* lists of valid pins, in ascending order
ValidPinLists ==
  {l \in SeqsUpTo(BatchPins, MaxList) : \A i \in 1..(Len(l) - 1) : l[i] < l[i + 1]}

\* lists with one pin out of range, at any position among valid pins
InvalidPinLists ==
  {l \in SeqsUpTo(BatchPins \cup {NUM_PINS}, MaxList) :
     /\ Cardinality({i \in 1..Len(l) : l[i] = NUM_PINS}) = 1
     /\ \A i, j \in 1..Len(l) :
          (i < j /\ l[i] /= NUM_PINS /\ l[j] /= NUM_PINS) => l[i] < l[j]}

\* the value listed with a pin, in the type the operation takes
ListedValue(op, pin) ==
  CASE op = "SetDirections" -> IF pin = 2 THEN "Output" ELSE "Input"
    [] op = "SetPolarities" -> IF pin = 2 THEN "Normal" ELSE "Inverted"
    [] op = "SetDriveStrengths" -> pin % 4
    [] op = "ConfigureInterrupts" -> IF pin = 2 THEN "Disabled" ELSE "Enabled"
    [] OTHER -> pin /= 2

Configs(op, pins) == [i \in 1..Len(pins) |-> <<pins[i], ListedValue(op, pins[i])>>]

\* a list-based operation by name
CallList(op, configs, q) ==
  CASE op = "WritePins" -> CallWritePins(configs, q)
    [] op = "SetDirections" -> CallSetDirections(configs, q)
    [] op = "SetPolarities" -> CallSetPolarities(configs, q)
    [] op = "SetPullEnables" -> CallSetPullEnables(configs, q)
    [] op = "SetPullDirections" -> CallSetPullDirections(configs, q)
    [] op = "EnableInputLatches" -> CallEnableInputLatches(configs, q)
    [] op = "SetDriveStrengths" -> CallSetDriveStrengths(configs, q)
    [] op = "ConfigureInterrupts" -> CallConfigureInterrupts(configs, q)

BatchInit == InitWith({BASE_ADDRESS}, {"Unknown"}, Buses({UsedRegs}))

BatchNext ==
  \/ \E q \in ShortScripts : Free(CallEnsureInitialized(q))
  \/ \E l \in ValidPinLists, q \in Outages :
       Counted(CallWritePins(Configs("WritePins", l), q))
  \/ \E l \in ValidPinLists, q \in Outages :
       Counted(CallSetDirections(Configs("SetDirections", l), q))
  \/ \E l \in ValidPinLists, q \in Outages :
       Counted(CallSetPolarities(Configs("SetPolarities", l), q))
  \/ \E l \in ValidPinLists, q \in Outages :
       Counted(CallSetPullEnables(Configs("SetPullEnables", l), q))
  \/ \E l \in ValidPinLists, q \in Outages :
       Counted(CallSetPullDirections(Configs("SetPullDirections", l), q))
  \/ \E l \in ValidPinLists, q \in Outages :
       Counted(CallEnableInputLatches(Configs("EnableInputLatches", l), q))

SpecBatch == BatchInit /\ [][BatchNext]_vars

\* the transport calls of kind k for register reg, in order
CallsFor(k, reg) == SelectSeq(trace, LAMBDA c : c.k = k /\ c.reg = reg)

\* the value the listed bit takes: true, Input and Inverted are 1
ListedBit(op, v) ==
  CASE op = "SetDirections" -> v = "Input"
    [] op = "SetPolarities" -> v = "Inverted"
    [] OTHER -> v = TRUE

\* byte new is byte old with the bits of the listed pins of port (0 or 1)
\* set to their listed values, the last entry of a pin deciding
BitsAsListed(op, configs, port, old, new) ==
  \A b \in 0..7 :
    LET listed == {i \in 1..Len(configs) : configs[i][1] = 8 * port + b}
    IN TestBit(new, b)
         = IF listed = {}
             THEN TestBit(old, b)
             ELSE ListedBit(op, configs[CHOOSE i \in listed : \A j \in listed : j <= i][2])

\* every read of the two port registers comes before every write of them
ReadsBeforeWrites(regs) ==
  \A i, j \in 1..Len(trace) :
    (/\ trace[i].k = "R" /\ trace[i].reg \in {regs[1], regs[2]}
     /\ trace[j].k = "W" /\ trace[j].reg \in {regs[1], regs[2]}) => i < j

\* C9 as stated: a list-based operation on valid pins makes exactly one
\* transport read and one transport write per port register, reads first,
\* and writes the bytes read with the listed bits set to their values.
C9_OneReadOneWrite ==
  last.op \in ListOps =>
    /\ ReadsBeforeWrites(PortRegs(last.op))
    /\ \A port \in {0, 1} :
         LET reg == PortRegs(last.op)[port + 1]
         IN /\ Len(CallsFor("R", reg)) = 1
            /\ Len(CallsFor("W", reg)) = 1
            /\ BitsAsListed(last.op, last.args[1], port,
                            CallsFor("R", reg)[1].val, CallsFor("W", reg)[1].val)

\* C9, amended: a list-based operation on valid pins that returns true has,
\* per port register, exactly one read and one write that succeeded, each
\* after at most `retries` failed attempts, all reads before all writes; the
\* byte written is the byte read with the listed bits set to their values,
\* and it is what the device register holds afterwards.  An operation that
\* returns false (initialization failed, the chip is not a PCAL9555A for an
\* Agile-I/O operation, or a read failed for good) writes nothing unless a
\* write failed for good.
C9_SuccessfulBatch ==
  last.op \in ListOps =>
    /\ ReadsBeforeWrites(PortRegs(last.op))
    /\ last.ret = TRUE =>
         \A port \in {0, 1} :
           LET reg == PortRegs(last.op)[port + 1]
               reads == CallsFor("R", reg)
               writes == CallsFor("W", reg)
           IN /\ Len(reads) \in 1..(drv.retries + 1)
              /\ Len(writes) \in 1..(drv.retries + 1)
              /\ \A i \in 1..Len(reads) : reads[i].ok = (i = Len(reads))
              /\ \A i \in 1..Len(writes) : writes[i].ok = (i = Len(writes))
              /\ BitsAsListed(last.op, last.args[1], port,
                              reads[Len(reads)].val, writes[Len(writes)].val)
              /\ reads[Len(reads)].val = last.b.regs[drv.dev_addr][reg]
              /\ bus.regs[drv.dev_addr][reg] = writes[Len(writes)].val
    /\ last.ret = FALSE =>
         \/ Writes = <<>>
         \/ ~Writes[Len(Writes)].ok

\* the example of the claim, with one failed attempt before the read of port
\* 0: WritePins {(0,true),(2,false),(9,true)} took OUTPUT_PORT_0 from 165 to
\* 161 and OUTPUT_PORT_1 from 60 to 62
C9_Witness ==
  /\ last.op = "WritePins"
  /\ last.args[1] = <<<<0, TRUE>>, <<2, FALSE>>, <<9, TRUE>>>>
  /\ last.ret = TRUE
  /\ Len(CallsFor("R", OUTPUT_PORT_0)) = 2
  /\ last.b.regs[drv.dev_addr][OUTPUT_PORT_0] = 165
  /\ bus.regs[drv.dev_addr][OUTPUT_PORT_0] = 161
  /\ bus.regs[drv.dev_addr][OUTPUT_PORT_1] = 62

(***************************************************************************)
(* The list-based operations on lists with a pin out of range.             *)
(***************************************************************************)
AbortInit == InitWith({BASE_ADDRESS}, {"Unknown"}, Buses({UsedRegs}))

AbortNext ==
  \/ \E q \in ShortScripts : Free(CallEnsureInitialized(q))
  \/ \E l \in InvalidPinLists, q \in Outages :
       Counted(CallWritePins(Configs("WritePins", l), q))
  \/ \E l \in InvalidPinLists, q \in Outages :
       Counted(CallSetDirections(Configs("SetDirections", l), q))
  \/ \E l \in InvalidPinLists, q \in Outages :
       Counted(CallSetPolarities(Configs("SetPolarities", l), q))
  \/ \E l \in InvalidPinLists, q \in Outages :
       Counted(CallSetPullEnables(Configs("SetPullEnables", l), q))
  \/ \E l \in InvalidPinLists, q \in Outages :
       Counted(CallSetPullDirections(Configs("SetPullDirections", l), q))
  \/ \E l \in InvalidPinLists, q \in Outages :
       Counted(CallEnableInputLatches(Configs("EnableInputLatches", l), q))
  \/ \E l \in InvalidPinLists, q \in Outages :
       Counted(CallSetDriveStrengths(Configs("SetDriveStrengths", l), q))
  \/ \E l \in InvalidPinLists, q \in Outages :
       Counted(CallConfigureInterrupts(Configs("ConfigureInterrupts", l), q))

SpecAbort == AbortInit /\ [][AbortNext]_vars

\* the last operation was list-based and its list held a pin out of range
InvalidListCase ==
  /\ last.op \in AllListOps
  /\ \E i \in 1..Len(last.args[1]) : last.args[1][i][1] >= NUM_PINS

\* the registers a list-based operation reads before it folds its list
ReadFirst(op) ==
  CASE op = "SetDriveStrengths" -> DriveStrengthRegs
    [] op = "ConfigureInterrupts" -> <<INT_MASK_0, INT_MASK_1>>
    [] OTHER -> PortRegs(op)

\* the last operation read all its registers, so that it came to its list
ListReached ==
  \A i \in 1..Len(ReadFirst(last.op)) :
    \E j \in 1..Len(trace) :
      trace[j].k = "R" /\ trace[j].reg = ReadFirst(last.op)[i] /\ trace[j].ok

\* C10 as stated: a list with a pin >= 16 at any position makes the call
\* return false, set InvalidPin, issue no transport write and leave every
\* device register as it was.
C10_AllOrNothing ==
  InvalidListCase =>
    /\ last.ret = FALSE
    /\ "InvalidPin" \in drv.error_flags
    /\ Writes = <<>>
    /\ bus.regs = last.b.regs

\* C10, amended: a list with a pin >= 16 at any position makes the call
\* return false, issue no transport write and leave every device register as
\* it was; it sets InvalidPin when the operation got to its list, that is
\* after initialization, the PCAL9555A check of an Agile-I/O operation and
\* the reads of its registers all succeeded; otherwise InvalidPin stays as it
\* was and I2CReadFail or UnsupportedFeature is set.
C10_AbortsBeforeWrite ==
  InvalidListCase =>
    /\ last.ret = FALSE
    /\ Writes = <<>>
    /\ bus.regs = last.b.regs
    /\ IF ListReached
         THEN "InvalidPin" \in drv.error_flags
         ELSE /\ ("InvalidPin" \in drv.error_flags)
                   = ("InvalidPin" \in last.d.error_flags)
              /\ drv.error_flags \cap {"I2CReadFail", "UnsupportedFeature"} /= {}

\* SetDriveStrengths with the bad pin in the middle of its list, on an
\* initialized PCAL9555A: four reads, no write, InvalidPin
C10_Witness ==
  /\ InvalidListCase
  /\ last.op = "SetDriveStrengths"
  /\ Len(last.args[1]) = 3
  /\ last.args[1][2][1] = NUM_PINS
  /\ last.d.initialized
  /\ Len(Reads) = 4
  /\ Writes = <<>>
  /\ last.ret = FALSE
  /\ "InvalidPin" \in drv.error_flags

(***************************************************************************)
(* Interrupt dispatch to the per-pin callbacks.                            *)
(***************************************************************************)
\* levels of port 0 with pin 0 low and high, of port 1 with pin 9 low and high
Port0Levels == {164, 165}

Port1Levels == {60, 62}

EdgeInit == InitWith({BASE_ADDRESS}, {"Unknown"}, Buses({UsedRegs}))

EdgeNext ==
  \/ \E p0 \in Port0Levels, p1 \in Port1Levels, s0 \in {0, 1}, s1 \in {0, 2} :
       Free(PinsChange(p0, p1, s0, s1))
  \/ \E pin \in {0, 9}, edge \in Edges :
       Free(CallRegisterPinInterrupt(pin, edge, "f", <<>>))
  \/ \E q \in Outages : Free(CallHandleInterrupt(q))

SpecEdge == EdgeInit /\ [][EdgeNext]_vars

\* the record of the locals of the last HandleInterrupt, if it got that far
Dispatches == Calls("D")

\* the invocations of pin callbacks for a pin in the last operation
PinCallbacks(pin) == SelectSeq(trace, LAMBDA c : c.k = "P" /\ c.pin = pin)

\* C11: in a dispatch, for a pin whose mask bit is set, previous level 0 and
\* current level 1 invoke a Rising or Both callback exactly once with
\* (pin, true) and no Falling callback; previous 1 and current 0 invoke a
\* Falling or Both callback exactly once with (pin, false) and no Rising
\* callback; no callback runs for a pin whose mask bit is 0.
C11_EdgeClassification ==
  (last.op = "HandleInterrupt" /\ Dispatches /= <<>>) =>
    \A pin \in 0..(NUM_PINS - 1) :
      LET loc == Dispatches[1]
          slot == last.d.pin_callbacks[pin]
          previous == TestBit(loc.previous, pin)
          current == TestBit(loc.current, pin)
          once(state) == PinCallbacks(pin) = <<[k |-> "P", handler |-> slot.callback,
                                                 pin |-> pin, state |-> state]>>
      IN /\ ~TestBit(loc.mask, pin) => PinCallbacks(pin) = <<>>
         /\ (TestBit(loc.mask, pin) /\ slot.registered /\ ~previous /\ current) =>
              IF slot.edge \in {"Rising", "Both"} THEN once(TRUE)
                                                  ELSE PinCallbacks(pin) = <<>>
         /\ (TestBit(loc.mask, pin) /\ slot.registered /\ previous /\ ~current) =>
              IF slot.edge \in {"Falling", "Both"} THEN once(FALSE)
                                                   ELSE PinCallbacks(pin) = <<>>

\* a dispatch on a PCAL9555A with both status bits set: pin 0 rose and its
\* Rising callback ran with true, pin 9 rose and its Falling callback did not
C11_Witness ==
  /\ last.op = "HandleInterrupt"
  /\ Dispatches /= <<>>
  /\ Dispatches[1].mask = 513
  /\ last.d.pin_callbacks[0].edge = "Rising"
  /\ last.d.pin_callbacks[9].registered
  /\ last.d.pin_callbacks[9].edge = "Falling"
  /\ ~TestBit(Dispatches[1].previous, 9) /\ TestBit(Dispatches[1].current, 9)
  /\ PinCallbacks(0) = <<[k |-> "P", handler |-> "f", pin |-> 0, state |-> TRUE]>>
  /\ PinCallbacks(9) = <<>>

(***************************************************************************)
(* Interrupt dispatch on a PCA9555: change detection.                      *)
(***************************************************************************)
ChangeInit == InitWith({BASE_ADDRESS}, {"Unknown", "PCA9555"}, Buses({UsedRegs}))

ChangeNext ==
  \/ \E p0 \in Port0Levels, p1 \in Port1Levels, s0 \in {0, 1}, s1 \in {0, 2} :
       Free(PinsChange(p0, p1, s0, s1))
  \/ \E c \in {"f", NoHandler} : Free(CallSetInterruptCallback(c))
  \/ \E q \in Outages : Free(CallChangeAddress(BASE_ADDRESS, q))
  \/ \E q \in Outages : Free(CallHandleInterrupt(q))

SpecChange == ChangeInit /\ [][ChangeNext]_vars

\* the first index of the run of reads of one register that ends at index j
RunStart(reads, j) ==
  CHOOSE i \in 1..j :
    /\ \A x \in i..j : reads[x].reg = reads[j].reg
    /\ i = 1 \/ reads[i - 1].reg /= reads[j].reg

RECURSIVE RunEnd(_)
\* the last index of the k-th run of reads of one register, counted from the
\* end of the operation's reads; a run is one readRegister call with its retries
RunEnd(k) == IF k = 1 THEN Len(Reads) ELSE RunStart(Reads, RunEnd(k - 1)) - 1

\* what the j-th readPinStates from the end returned: a run for port 0, then
\* a run for port 1, each giving the value of its last read (0 if it failed)
PinStatesRead(j) == Word(Reads[RunEnd(2 * j)].val, Reads[RunEnd(2 * j - 1)].val)

\* the levels the change detection of the last dispatch read: the dispatch
\* ends its reads with readPinStates twice, the first of them for the
\* change detection
LevelsRead == PinStatesRead(2)

\* the invocations of the global callback in the last operation
GlobalCallbacks == Calls("G")

\* the last operation was a dispatch by a driver whose variant was Base when
\* the dispatch started, and it got past its initialization guard
BaseDispatch ==
  /\ last.op = "HandleInterrupt"
  /\ last.d.chip_variant = "PCA9555"
  /\ Dispatches /= <<>>

\* what C12 and its amendment share: no read of INT_STATUS_0 / INT_STATUS_1,
\* UnsupportedFeature not set by the dispatch, and the mask the global
\* callback gets is the levels read XOR previous
ChangeDetection(previous) ==
  /\ \A i \in 1..Len(Reads) : Reads[i].reg \notin {INT_STATUS_0, INT_STATUS_1}
  /\ "UnsupportedFeature" \in drv.error_flags => "UnsupportedFeature" \in last.d.error_flags
  /\ Dispatches[1].mask = Xor16(LevelsRead, previous)
  /\ \A i \in 1..Len(GlobalCallbacks) : GlobalCallbacks[i].mask = Dispatches[1].mask

GlobalInit == InitWith({BASE_ADDRESS}, {"Unknown"}, Buses({UsedRegs}))

GlobalNext ==
  \/ \E p0 \in Port0Levels, p1 \in Port1Levels, s0 \in {0, 1}, s1 \in {0, 2} :
       Free(PinsChange(p0, p1, s0, s1))
  \/ \E c \in Handlers \cup {NoHandler} : Free(CallSetInterruptCallback(c))
  \/ \E pin \in {0, 9} : Free(CallRegisterPinInterrupt(pin, "Both", "f", <<>>))
  \/ \E q \in Outages : Free(CallHandleInterrupt(q))

SpecGlobal == GlobalInit /\ [][GlobalNext]_vars

\* C13: on an initialized driver with a global callback set, a HandleInterrupt
\* calls the global callback exactly once, with the mask of the dispatch
\* (zero or not), before every pin callback of the dispatch; the handler is
\* the one the most recent SetInterruptCallback set, which no other
\* operation replaces.
C13_GlobalCallbackOnce ==
  /\ (/\ last.op = "HandleInterrupt"
      /\ last.d.initialized
      /\ last.d.irq_callback /= NoHandler) =>
       /\ Dispatches /= <<>>
       /\ GlobalCallbacks = <<[k |-> "G", handler |-> last.d.irq_callback,
                               mask |-> Dispatches[1].mask]>>
       /\ \A i, j \in 1..Len(trace) :
            (trace[i].k = "G" /\ trace[j].k = "P") => i < j
  /\ last.op = "SetInterruptCallback" => drv.irq_callback = last.args[1]
  /\ last.op \notin {"SetInterruptCallback", "Construct"} =>
       drv.irq_callback = last.d.irq_callback

\* a dispatch in which the global callback g ran with mask 1 and then the
\* callback of pin 0
C13_Witness ==
  /\ last.op = "HandleInterrupt"
  /\ last.d.initialized
  /\ GlobalCallbacks = <<[k |-> "G", handler |-> "g", mask |-> 1]>>
  /\ PinCallbacks(0) /= <<>>
  /\ trace[Len(trace)].k = "P"

(***************************************************************************)
(* The per-pin callback slots.                                             *)
(***************************************************************************)
SlotsInit == InitWith({BASE_ADDRESS}, {"Unknown"}, Buses({UsedRegs}))

SlotsNext ==
  \/ \E p0 \in Port0Levels, p1 \in Port1Levels :
       Free(PinsChange(p0, p1, IF bus.hw[BASE_ADDRESS] = "PCAL9555A" THEN 1 ELSE 0,
                       IF bus.hw[BASE_ADDRESS] = "PCAL9555A" THEN 2 ELSE 0))
  \/ \E pin \in {0, 9}, c \in {"f", NoHandler} :
       Free(CallRegisterPinInterrupt(pin, "Both", c, <<>>))
  \/ \E pin \in {0, 9, NUM_PINS}, q \in Outages :
       Free(CallUnregisterPinInterrupt(pin, q))
  \/ \E q \in Outages : Free(CallChangeAddress(BASE_ADDRESS, q))
  \/ Free(CallHandleInterrupt(<<>>))

SpecSlots == SlotsInit /\ [][SlotsNext]_vars

\* the slot UnregisterPinInterrupt leaves behind
ClearedSlot(slot) == [slot EXCEPT !.registered = FALSE, !.callback = NoHandler]

\* what C14 and its amendment share, for a call that got past the guard or
\* not: the slots after UnregisterPinInterrupt, the dispatch and the way a
\* slot becomes registered
SlotsKept ==
  /\ (last.op = "UnregisterPinInterrupt" /\ last.ret = TRUE) =>
       drv.pin_callbacks =
         [last.d.pin_callbacks EXCEPT ![last.args[1]] = ClearedSlot(@)]
  /\ (last.op = "UnregisterPinInterrupt" /\ last.ret = FALSE) =>
       drv.pin_callbacks = last.d.pin_callbacks
  /\ last.op = "HandleInterrupt" =>
       \A pin \in 0..(NUM_PINS - 1) :
         ~last.d.pin_callbacks[pin].registered => PinCallbacks(pin) = <<>>
  /\ \A pin \in 0..(NUM_PINS - 1) :
       (drv.pin_callbacks[pin].registered /\ ~last.d.pin_callbacks[pin].registered) =>
         (last.op = "RegisterPinInterrupt" /\ last.ret = TRUE /\ last.args[1] = pin)

\* C14 as stated: UnregisterPinInterrupt(p) returns true iff p < 16 and a
\* callback is registered for p; it clears that slot and no other;
\* UnregisterPinInterrupt(16) returns false and sets InvalidPin; a dispatch
\* invokes no callback of an unregistered pin, and only a successful
\* RegisterPinInterrupt registers a pin.
C14_TrueIffRegistered ==
  /\ SlotsKept
  /\ last.op = "UnregisterPinInterrupt" =>
       /\ (last.ret = TRUE) = (/\ last.args[1] < NUM_PINS
                               /\ last.d.pin_callbacks[last.args[1]].registered)
       /\ last.args[1] >= NUM_PINS => "InvalidPin" \in drv.error_flags

\* C14, amended: the same for a call on an initialized driver or one whose
\* lazy initialization succeeds; when that initialization fails the call
\* returns false whatever the pin, leaves every slot as it was, sets
\* I2CReadFail and leaves InvalidPin as it was.
C14_TrueIffRegisteredAndInitialized ==
  /\ SlotsKept
  /\ last.op = "UnregisterPinInterrupt" =>
       /\ (last.ret = TRUE) = (/\ drv.initialized
                               /\ last.args[1] < NUM_PINS
                               /\ last.d.pin_callbacks[last.args[1]].registered)
       /\ IF drv.initialized
            THEN last.args[1] >= NUM_PINS => "InvalidPin" \in drv.error_flags
            ELSE /\ "I2CReadFail" \in drv.error_flags
                 /\ ("InvalidPin" \in drv.error_flags)
                      = ("InvalidPin" \in last.d.error_flags)

\* pin 0 unregistered while pin 9 stays registered
C14_Witness ==
  /\ last.op = "UnregisterPinInterrupt"
  /\ last.args[1] = 0
  /\ last.ret = TRUE
  /\ last.d.pin_callbacks[0].registered
  /\ ~drv.pin_callbacks[0].registered
  /\ drv.pin_callbacks[9].registered

(***************************************************************************)
(* The device address.                                                     *)
(***************************************************************************)
\* addresses handed to the address constructor: below, in and above the range
CtorAddresses == {0, 25, BASE_ADDRESS, BASE_ADDRESS + 1, MAX_ADDRESS, 48, 255}

\* addresses handed to ChangeAddress(uint8_t)
NewAddresses == {BASE_ADDRESS - 1, BASE_ADDRESS, BASE_ADDRESS + 1, MAX_ADDRESS,
                 MAX_ADDRESS + 1}

\* a driver from either constructor; last keeps the constructor's arguments
AddressInit ==
  /\ bus \in Buses({UsedRegs})
  /\ trace = <<>>
  /\ calls = 0
  /\ run = NoRun
  /\ \/ \E a \in CtorAddresses :
          /\ drv = Construct(a, "Unknown")
          /\ last = [op |-> "Construct", args |-> <<a>>, ret |-> "void",
                     d |-> drv, b |-> bus]
     \/ \E a0, a1, a2 \in BOOLEAN :
          /\ drv = ConstructPins(a0, a1, a2, "Unknown")
          /\ last = [op |-> "ConstructPins", args |-> <<a0, a1, a2>>, ret |-> "void",
                     d |-> drv, b |-> bus]

AddressNext ==
  \/ \E a \in NewAddresses, q \in Outages : Free(CallChangeAddress(a, q))
  \/ \E a0, a1, a2 \in BOOLEAN : Free(CallChangeAddressPins(a0, a1, a2, <<>>))
  \/ \E q \in Outages : Free(CallReadPin(0, q))
  \/ \E q \in Outages : Free(CallSetPinDirection(0, "Output", q))

SpecAddress == AddressInit /\ [][AddressNext]_vars

\* 1 for a high level, 0 for a low one
Level(b) == IF b THEN 1 ELSE 0

\* C15: the device address is in [0x20, 0x27], is 0x20 + (A2<<2 | A1<<1 | A0)
\* of the stored levels, and is the address of every transport read and
\* write; the address constructor clamps its argument into the range.
C15_AddressInvariant ==
  /\ drv.dev_addr \in BASE_ADDRESS..MAX_ADDRESS
  /\ drv.dev_addr = BASE_ADDRESS + 4 * Level(drv.a2_level) + 2 * Level(drv.a1_level)
                                 + Level(drv.a0_level)
  /\ \A i \in 1..Len(trace) :
       trace[i].k \in {"R", "W"} => trace[i].addr = drv.dev_addr
  /\ last.op = "Construct" =>
       drv.dev_addr = IF last.args[1] < BASE_ADDRESS THEN BASE_ADDRESS
                      ELSE IF last.args[1] > MAX_ADDRESS THEN MAX_ADDRESS
                      ELSE last.args[1]

\* a driver at 0x20 after a failed ChangeAddress to 0x27, where no device
\* answers: the address is 0x27, all levels high, and the failed reads went
\* to 0x27
C15_Witness ==
  /\ last.op = "ChangeAddress"
  /\ last.args[1] = MAX_ADDRESS
  /\ last.ret = FALSE
  /\ last.d.dev_addr = BASE_ADDRESS
  /\ drv.dev_addr = MAX_ADDRESS
  /\ drv.a0_level /\ drv.a1_level /\ drv.a2_level
  /\ Reads /= <<>>
  /\ \A i \in 1..Len(Reads) : Reads[i].addr = MAX_ADDRESS /\ ~Reads[i].ok

\* C16: ChangeAddress(address) with address outside [0x20, 0x27] returns
\* false, sets InvalidAddress, makes no transport call, and leaves the
\* device address, address bits, stored levels, initialized flag and chip
\* variant (and every other member, and the devices) unchanged.
C16_InvalidAddressRejected ==
  (/\ last.op = "ChangeAddress"
   /\ last.args[1] \notin BASE_ADDRESS..MAX_ADDRESS) =>
    /\ last.ret = FALSE
    /\ "InvalidAddress" \in drv.error_flags
    /\ trace = <<>>
    /\ drv = [last.d EXCEPT !.error_flags = @ \cup {"InvalidAddress"}]
    /\ bus = last.b

\* ChangeAddress(0x28) on an initialized driver that had moved to 0x21
C16_Witness ==
  /\ last.op = "ChangeAddress"
  /\ last.args[1] = MAX_ADDRESS + 1
  /\ last.d.initialized
  /\ last.d.dev_addr = BASE_ADDRESS + 1
  /\ last.d.chip_variant /= "Unknown"
  /\ drv.initialized
  /\ drv.dev_addr = BASE_ADDRESS + 1
  /\ "InvalidAddress" \in drv.error_flags

(***************************************************************************)
(* Lazy initialization.                                                    *)
(***************************************************************************)
LazyInit == InitWith({BASE_ADDRESS}, {"Unknown", "PCA9555"}, Buses({UsedRegs}))

LazyNext ==
  \/ \E q \in ShortScripts : Free(CallEnsureInitialized(q))
  \/ \E q \in ShortScripts : Free(CallReadPin(0, q))
  \/ \E q \in ShortScripts : Free(CallSetPinDirection(0, "Output", q))
  \/ \E q \in Outages : Free(CallChangeAddress(BASE_ADDRESS + 1, q))
  \/ \E q \in Outages : Free(CallChangeAddressPins(FALSE, FALSE, FALSE, q))

SpecLazy == LazyInit /\ [][LazyNext]_vars

\* the last operation was one that starts with EnsureInitialized(), called
\* on a driver that was not initialized
InitAttempt ==
  /\ last.op \in {"EnsureInitialized", "ReadPin", "SetPinDirection"}
  /\ ~last.d.initialized

\* the initialization of the last operation failed: the transport's
\* EnsureInitialized failed, or it succeeded and the verification read of
\* INPUT_PORT_0 failed on each of its retries + 1 attempts
InitFailure ==
  \/ ~trace[1].ok
  \/ /\ Len(trace) >= last.d.retries + 3
     /\ \A i \in 3..(last.d.retries + 3) :
          trace[i].k = "R" /\ trace[i].reg = INPUT_PORT_0 /\ ~trace[i].ok

\* C17: an initialization that fails stops at the failing step and returns
\* false with I2CReadFail set,
\* initialized false, the variant unchanged and no register write; the
\* operation that ran it returns its failure value; every call on an
\* uninitialized driver runs the initialization from its start (the
\* transport's EnsureInitialized, SetAddressPins, the verification read) and
\* succeeds unless one of the two failures happens again.
C17_InitializationRetryable ==
  InitAttempt =>
    /\ trace /= <<>>
    /\ trace[1].k = "E"
    /\ InitFailure =>
         /\ Len(trace) = IF trace[1].ok THEN last.d.retries + 3 ELSE 1
         /\ last.ret = FALSE
         /\ "I2CReadFail" \in drv.error_flags
         /\ ~drv.initialized
         /\ drv.chip_variant = last.d.chip_variant
         /\ Writes = <<>>
         /\ bus = last.b
    /\ ~InitFailure =>
         /\ drv.initialized
         /\ trace[2].k = "A"
         /\ trace[3].k = "R" /\ trace[3].reg = INPUT_PORT_0
         /\ last.op = "EnsureInitialized" => last.ret = TRUE

\* EnsureInitialized() succeeding on a driver that an earlier failure left
\* uninitialized with I2CReadFail set
C17_Witness ==
  /\ last.op = "EnsureInitialized"
  /\ ~last.d.initialized
  /\ last.d.chip_variant = "Unknown"
  /\ "I2CReadFail" \in last.d.error_flags
  /\ last.ret = TRUE
  /\ drv.initialized
  /\ "I2CReadFail" \notin drv.error_flags

\* C18: every operation that does register I/O runs EnsureInitialized()
\* first, both ChangeAddress overloads included: an operation called on an
\* uninitialized driver issues no transport Read or Write before the
\* transport's EnsureInitialized has returned true.
C18_TransportReadyFirst ==
  ~last.d.initialized =>
    \A i \in 1..Len(trace) :
      trace[i].k \in {"R", "W"} =>
        \E j \in 1..(i - 1) : trace[j].k = "E" /\ trace[j].ok

\* C19: EnsureInitialized() on an initialized driver returns true, makes no
\* transport call and changes neither the driver nor the devices.
C19_Idempotent ==
  (last.op = "EnsureInitialized" /\ last.d.initialized) =>
    /\ last.ret = TRUE
    /\ trace = <<>>
    /\ drv = last.d
    /\ bus = last.b

\* EnsureInitialized() on an initialized driver that holds an error flag and
\* the pin states read at initialization
C19_Witness ==
  /\ last.op = "EnsureInitialized"
  /\ last.d.initialized
  /\ last.d.error_flags /= {}
  /\ last.d.previous_pin_states = Word(165, 60)
  /\ drv = last.d

(***************************************************************************)
(* Pins out of range: every operation that takes a pin, or a list of      *)
(* pins, called with a pin index of 16 or more.                            *)
(***************************************************************************)
RangePins == {NUM_PINS, NUM_PINS + 1}

SinglePinOps ==
  {"ReadPin", "WritePin", "TogglePin", "SetPinDirection", "SetPinPolarity",
   "SetPullEnable", "SetPullDirection", "SetDriveStrength", "ConfigureInterrupt",
   "EnableInputLatch", "RegisterPinInterrupt", "UnregisterPinInterrupt"}

RangeInit == InitWith({BASE_ADDRESS}, {"Unknown"}, Buses({UsedRegs}))

\* the lists of one pin out of range, alone or next to one valid pin
RangeLists ==
  {l \in InvalidPinLists : Len(l) <= 2 /\ \A i \in 1..Len(l) : l[i] /= 2}

RangeNext ==
  \/ \E q \in Outages : Free(CallEnsureInitialized(q))
  \/ \E p \in RangePins \cup {0} : Free(CallReadPin(p, <<>>))
  \/ \E p \in RangePins, v \in BOOLEAN : Free(CallWritePin(p, v, <<>>))
  \/ \E p \in RangePins : Free(CallTogglePin(p, <<>>))
  \/ \E p \in RangePins, d \in {"Input", "Output"} :
       Free(CallSetPinDirection(p, d, <<>>))
  \/ \E p \in RangePins, y \in {"Normal", "Inverted"} :
       Free(CallSetPinPolarity(p, y, <<>>))
  \/ \E p \in RangePins, v \in BOOLEAN : Free(CallSetPullEnable(p, v, <<>>))
  \/ \E p \in RangePins, v \in BOOLEAN : Free(CallSetPullDirection(p, v, <<>>))
  \/ \E p \in RangePins, l \in {0, 3} : Free(CallSetDriveStrength(p, l, <<>>))
  \/ \E p \in RangePins, s \in {"Enabled", "Disabled"} :
       Free(CallConfigureInterrupt(p, s, <<>>))
  \/ \E p \in RangePins, v \in BOOLEAN : Free(CallEnableInputLatch(p, v, <<>>))
  \/ \E p \in RangePins, c \in Handlers :
       Free(CallRegisterPinInterrupt(p, "Both", c, <<>>))
  \/ \E p \in RangePins : Free(CallUnregisterPinInterrupt(p, <<>>))
  \/ \E l \in RangeLists, q \in Outages : Free(CallReadPins(l, q))
  \/ \E op \in AllListOps, l \in RangeLists, q \in Outages :
       Free(CallList(op, Configs(op, l), q))

SpecRange == RangeInit /\ [][RangeNext]_vars

\* the last operation took a pin, or a list with a pin, of 16 or more
PinOutOfRange ==
  CASE last.op \in SinglePinOps -> last.args[1] >= NUM_PINS
    [] last.op \in AllListOps ->
         \E i \in 1..Len(last.args[1]) : last.args[1][i][1] >= NUM_PINS
    [] last.op = "ReadPins" ->
         \E i \in 1..Len(last.args[1]) : last.args[1][i] >= NUM_PINS
    [] OTHER -> FALSE

\* C20 as stated: on an initialized driver, an operation given a pin index of
\* 16 or more issues no transport Read and no transport Write.
C20_NeverReachesTransport ==
  (last.d.initialized /\ PinOutOfRange) => (Reads = <<>> /\ Writes = <<>>)

\* C20, amended: on an initialized driver, an operation given a pin index of
\* 16 or more issues no transport Write; a single-pin operation issues no
\* transport Read either and returns false (ReadPin, false as well), but a
\* list-based operation reads before it looks at the list: its reads are of
\* its own pair of port registers (of the input ports for ReadPins, which
\* reports false for that pin), and every list-based operation but ReadPins
\* returns false.
C20_NeverWritten ==
  (last.d.initialized /\ PinOutOfRange) =>
    /\ Writes = <<>>
    /\ last.op \in SinglePinOps => (Reads = <<>> /\ last.ret = FALSE)
    /\ last.op \in AllListOps => last.ret = FALSE
    /\ last.op \in ListOps =>
         \A i \in 1..Len(Reads) :
           Reads[i].reg \in {PortRegs(last.op)[1], PortRegs(last.op)[2]}
    /\ last.op = "ReadPins" =>
         /\ \A i \in 1..Len(Reads) : Reads[i].reg \in {INPUT_PORT_0, INPUT_PORT_1}
         /\ last.ret /= <<>> =>
              /\ Len(Reads) >= 2
              /\ \A i \in 1..Len(last.ret) :
                   last.ret[i][1] >= NUM_PINS => last.ret[i][2] = FALSE

\* an initialized driver is given WritePins with a pin 16 in the list: it
\* reads both output ports, writes nothing and returns false
C20_Witness ==
  /\ last.d.initialized
  /\ last.op = "WritePins"
  /\ PinOutOfRange
  /\ Len(Reads) = 2
  /\ Writes = <<>>
  /\ last.ret = FALSE
  /\ "InvalidPin" \in drv.error_flags

(***************************************************************************)
(* Clearing error flags: the flags are raised by failing operations and    *)
(* cleared by mask.                                                        *)
(***************************************************************************)
\* the masks given to ClearErrorFlags: none, all (the default), one flag, two
ClearMasks ==
  {{}, Errors, {"I2CReadFail", "InvalidAddress"}} \cup {{e} : e \in Errors}

ClearInit == InitWith({BASE_ADDRESS}, {"Unknown"}, Buses({UsedRegs}))

ClearNext ==
  \/ \E q \in Outages : Free(CallEnsureInitialized(q))
  \/ \E mask \in ClearMasks : Free(CallClearErrorFlags(mask))
  \/ \E p \in {0, NUM_PINS} : Free(CallReadPin(p, <<FALSE, FALSE, FALSE>>))
  \/ Free(CallSetMultipleDirections(0, "Input", <<>>))
  \/ Free(CallChangeAddress(MAX_ADDRESS + 1, <<>>))
  \/ Free(CallSetPullEnable(0, TRUE, <<>>))
  \/ Free(CallSetPinDirection(0, "Input", <<TRUE, FALSE, FALSE, FALSE>>))

SpecClear == ClearInit /\ [][ClearNext]_vars

\* C21: ClearErrorFlags(mask) clears exactly the flags in mask and leaves
\* every other flag, and the rest of the driver, unchanged; with the default
\* mask (all flags) no flag is left; it performs no transport I/O.
C21_ClearsExactlyMask ==
  last.op = "ClearErrorFlags" =>
    /\ \A e \in Errors :
         e \in drv.error_flags <=> (e \in last.d.error_flags /\ e \notin last.args[1])
    /\ last.args[1] = Errors => drv.error_flags = {}
    /\ drv = [last.d EXCEPT !.error_flags = drv.error_flags]
    /\ trace = <<>>
    /\ bus = last.b

\* ClearErrorFlags(I2CReadFail) on a driver holding I2CReadFail and
\* InvalidAddress: InvalidAddress is still set afterwards
C21_Witness ==
  /\ last.op = "ClearErrorFlags"
  /\ last.args[1] = {"I2CReadFail"}
  /\ {"I2CReadFail", "InvalidAddress"} \subseteq last.d.error_flags
  /\ "InvalidAddress" \in drv.error_flags
  /\ "I2CReadFail" \notin drv.error_flags

(***************************************************************************)
(* Reading several pins: ReadPins with lists in any order, with repeated   *)
(* pins and pins out of range, while the input levels change.              *)
(***************************************************************************)
\* the lists requested: up to two pins in any order, and one of three
ReadLists ==
  {l \in SeqsUpTo({0, 9, NUM_PINS}, MaxList) : Len(l) <= 2} \cup {<<9, 0, NUM_PINS>>}

\* a working transport, one that fails once, one that fails the first read
\* for good and one that fails the second read for good
ReadScripts == {<<>>, <<FALSE>>, <<FALSE, FALSE>>, <<TRUE, FALSE, FALSE>>}

ReadInit == InitWith({BASE_ADDRESS}, {"Unknown", "PCA9555"}, Buses({UsedRegs}))

ReadNext ==
  \/ \E q \in Outages : Free(CallEnsureInitialized(q))
  \/ \E p0 \in Port0Levels, p1 \in Port1Levels : Free(PinsChange(p0, p1, 0, 0))
  \/ \E l \in ReadLists, q \in ReadScripts : Free(CallReadPins(l, q))

SpecRead == ReadInit /\ [][ReadNext]_vars

\* no transport call of the last operation failed
WorkingTransport == \A i \in 1..Len(trace) : trace[i].k = "A" \/ trace[i].ok

\* one entry per requested pin, in request order, with the pin's bit in the
\* bytes b0 (port 0) and b1 (port 1), false for a pin of 16 or more
LevelsOf(pins, b0, b1) ==
  [i \in 1..Len(pins) |->
     <<pins[i], /\ pins[i] < NUM_PINS
                /\ TestBit(IF pins[i] < 8 THEN b0 ELSE b1, pins[i] % 8)>>]

\* the result of ReadPins is built from the last two reads of the operation,
\* INPUT_PORT_0 then INPUT_PORT_1, both successful
ResultFromLastReads ==
  /\ Len(Reads) >= 2
  /\ Reads[Len(Reads) - 1].reg = INPUT_PORT_0 /\ Reads[Len(Reads) - 1].ok
  /\ Reads[Len(Reads)].reg = INPUT_PORT_1 /\ Reads[Len(Reads)].ok
  /\ last.ret = LevelsOf(last.args[1], Reads[Len(Reads) - 1].val, Reads[Len(Reads)].val)

\* C22 as stated: on a working transport ReadPins reads each input-port
\* register exactly once and returns one entry per requested pin.
C22_EachPortReadOnce ==
  (last.op = "ReadPins" /\ WorkingTransport) =>
    /\ Len(CallsFor("R", INPUT_PORT_0)) = 1
    /\ Len(CallsFor("R", INPUT_PORT_1)) = 1
    /\ ResultFromLastReads

\* C22, amended: on an initialized driver and a working transport ReadPins
\* issues exactly two transport reads, INPUT_PORT_0 then INPUT_PORT_1, whatever
\* the number of pins, and returns one (pin, level) entry per requested pin
\* in request order, the level being the pin's bit in the bytes read and
\* false for a pin of 16 or more; on an uninitialized driver the call first
\* initializes it, which reads INPUT_PORT_0 at least twice and INPUT_PORT_1
\* once before those two reads; whenever the call returns entries they come from
\* its last two reads; if the initialization or either read fails on every
\* attempt the result is empty.
C22_EachPortReadOnceWhenInitialized ==
  last.op = "ReadPins" =>
    /\ (WorkingTransport /\ last.d.initialized) =>
         /\ Len(trace) = 2
         /\ ResultFromLastReads
    /\ (WorkingTransport /\ ~last.d.initialized) =>
         /\ Len(CallsFor("R", INPUT_PORT_0)) >= 3
         /\ Len(CallsFor("R", INPUT_PORT_1)) = 2
         /\ ResultFromLastReads
    /\ ~trace[Len(trace)].ok => last.ret = <<>>
    /\ trace[Len(trace)].ok => ResultFromLastReads

\* ReadPins({9, 0, 16}) on an initialized driver while pin 9 is high and
\* pin 0 is low: two reads, three entries in request order
C22_Witness ==
  /\ last.op = "ReadPins"
  /\ last.d.initialized
  /\ WorkingTransport
  /\ Len(trace) = 2
  /\ last.ret = <<(<<9, TRUE>>), (<<0, FALSE>>), (<<NUM_PINS, FALSE>>)>>

(***************************************************************************)
(* Reset to the datasheet defaults, from register contents that earlier    *)
(* operations and the power-on state leave.                                *)
(***************************************************************************)
ResetInit ==
  InitWith({BASE_ADDRESS}, Variants, Buses({UsedRegs, PowerOnRegs}))

ResetNext ==
  \/ \E q \in Outages : Free(CallEnsureInitialized(q))
  \/ \E q \in FlagScripts : Free(CallResetToDefault(q))
  \/ \E p \in {0, 9}, v \in BOOLEAN : Free(CallWritePin(p, v, <<>>))
  \/ \E y \in {"Normal", "Inverted"} : Free(CallSetPinPolarity(0, y, <<>>))
  \/ \E l \in {0, 3} : Free(CallSetDriveStrength(9, l, <<>>))

SpecReset == ResetInit /\ [][ResetNext]_vars

\* the registers of the addressed device after the last operation
Device == bus.regs[drv.dev_addr]

\* the registers in regs hold the values in vals, position by position
Holds(regs, vals) == \A i \in 1..Len(regs) : Device[regs[i]] = vals[i]

Outcomes == {q \in SeqsUpTo(BOOLEAN, 3) : Len(q) = 3}

\* a transport that answers its first two calls, then gives the three
\* sandwich reads their outcomes, then is down for k more calls
ProbeScripts ==
  {<<TRUE, TRUE>> \o o \o FailPrefix(k) : o \in Outcomes, k \in 0..(MaxRetries + 1)}

ProbeInit == InitWith({BASE_ADDRESS}, {"Unknown"}, Buses({UsedRegs}))

ProbeNext ==
  \/ \E n \in 0..MaxRetries : Free(CallSetRetries(n))
  \/ \E q \in ProbeScripts \cup Outages : Free(CallEnsureInitialized(q))
  \/ \E q \in ProbeScripts : Free(CallChangeAddress(BASE_ADDRESS + 1, Tail(q)))

SpecProbe == ProbeInit /\ [][ProbeNext]_vars

\* the last operation ran detectChipVariant: an initialization or an address
\* change of an auto-detecting driver whose verification read succeeded
Detection ==
  /\ \/ last.op = "EnsureInitialized" /\ ~last.d.initialized
     \/ last.op = "ChangeAddress"
  /\ last.d.user_variant = "Unknown"
  /\ FirstGoodRead > 0

\* trace[i..j] is one readRegister(reg) under r retries: transport reads of
\* reg, all but the last failing, the last one succeeding or being the
\* (r + 1)-th attempt
IsAccess(i, j, reg, r) ==
  /\ 1 <= i /\ i <= j /\ j <= Len(trace)
  /\ \A x \in i..j : trace[x].k = "R" /\ trace[x].reg = reg
  /\ \A x \in i..(j - 1) : ~trace[x].ok
  /\ trace[j].ok \/ j - i = r

\* what follows detection from index i on: nothing after an address change,
\* readPinStates under the configured retries after an initialization
AfterDetection(i) ==
  IF last.op = "ChangeAddress"
    THEN i = Len(trace) + 1
    ELSE \E j \in i..Len(trace) :
           /\ IsAccess(i, j, INPUT_PORT_0, last.d.retries)
           /\ IsAccess(j + 1, Len(trace), INPUT_PORT_1, last.d.retries)

\* C24: each sandwich read of detectChipVariant is one transport read
\* whatever the retry count: the baseline read of INPUT_PORT_0 and, if it
\* succeeded, the probe of OUTPUT_CONF and the recovery read of INPUT_PORT_0;
\* on every exit of detection the retry count is the configured one again,
\* and the register accesses that follow use up to retries + 1 attempts.
C24_SingleShotProbe ==
  Detection =>
    /\ drv.retries = last.d.retries
    /\ Len(trace) > FirstGoodRead
    /\ trace[FirstGoodRead + 1].k = "R"
    /\ trace[FirstGoodRead + 1].reg = INPUT_PORT_0
    /\ IF ~trace[FirstGoodRead + 1].ok
         THEN AfterDetection(FirstGoodRead + 2)
         ELSE /\ Len(trace) >= FirstGoodRead + 3
              /\ trace[FirstGoodRead + 2].k = "R"
              /\ trace[FirstGoodRead + 2].reg = OUTPUT_CONF
              /\ trace[FirstGoodRead + 3].k = "R"
              /\ trace[FirstGoodRead + 3].reg = INPUT_PORT_0
              /\ AfterDetection(FirstGoodRead + 4)

\* an initialization under two retries whose probe and recovery read fail
\* once each, and whose read of INPUT_PORT_0 after detection fails three times
C24_Witness ==
  /\ Detection
  /\ last.op = "EnsureInitialized"
  /\ last.d.retries = 2
  /\ trace[FirstGoodRead + 1].ok
  /\ ~trace[FirstGoodRead + 2].ok
  /\ ~trace[FirstGoodRead + 3].ok
  /\ Len(trace) > FirstGoodRead + 6
  /\ \A x \in (FirstGoodRead + 4)..(FirstGoodRead + 6) :
       trace[x].reg = INPUT_PORT_0 /\ ~trace[x].ok
  /\ drv.retries = 2

\* the last operation was an auto-detecting initialization in which the
\* probe of OUTPUT_CONF failed and every other transport call succeeded
NegativeProbe ==
  /\ last.op = "EnsureInitialized"
  /\ ~last.d.initialized
  /\ last.d.user_variant = "Unknown"
  /\ \E i \in 1..Len(trace) : trace[i].k = "R" /\ trace[i].reg = OUTPUT_CONF
  /\ \A i \in 1..Len(trace) :
       \/ trace[i].k = "A"
       \/ trace[i].ok <=> ~(trace[i].k = "R" /\ trace[i].reg = OUTPUT_CONF)

\* C25: after an auto-detecting initialization in which only the probe of
\* OUTPUT_CONF failed, EnsureInitialized() has returned true, the driver is
\* initialized, the variant is Base and I2CReadFail is not set, whether or
\* not it was set before.
C25_ExpectedNegative ==
  NegativeProbe =>
    /\ last.ret = TRUE
    /\ drv.initialized
    /\ drv.chip_variant = "PCA9555"
    /\ "I2CReadFail" \notin drv.error_flags

\* the initialization of a driver on a PCA9555, which does not acknowledge
\* OUTPUT_CONF, after an earlier failure had set I2CReadFail
C25_Witness ==
  /\ NegativeProbe
  /\ bus.hw[drv.dev_addr] = "PCA9555"
  /\ "I2CReadFail" \in last.d.error_flags
  /\ last.ret = TRUE
  /\ drv.chip_variant = "PCA9555"

(***************************************************************************)
(* Mask-based batches: one common value for the pins a 16-bit mask         *)
(* selects.                                                                *)
(***************************************************************************)
MaskOps ==
  {"SetMultipleDirections", "SetMultipleOutputs", "SetMultiplePolarities",
   "EnableMultipleInputLatches"}

\* the pair of port registers a mask-based operation works on
MaskRegs(op) ==
  CASE op = "SetMultipleDirections" -> <<CONFIG_PORT_0, CONFIG_PORT_1>>
    [] op = "SetMultipleOutputs" -> <<OUTPUT_PORT_0, OUTPUT_PORT_1>>
    [] op = "SetMultiplePolarities" -> <<POLARITY_INV_0, POLARITY_INV_1>>
    [] op = "EnableMultipleInputLatches" -> <<INPUT_LATCH_0, INPUT_LATCH_1>>

\* no pin, pins of port 0 only, of port 1 only, of both ports, every pin
Masks == {0, 1, 5, 512, 517, 65535}

\* a working transport, one that fails once, and one that fails the write of
\* port 1 for good
MaskScripts == {<<>>, <<FALSE>>, <<TRUE, TRUE, TRUE, FALSE, FALSE, FALSE, FALSE>>}

MaskInit == InitWith({BASE_ADDRESS}, {"Unknown"}, Buses({UsedRegs}))

MaskNext ==
  \/ \E q \in Outages : Free(CallEnsureInitialized(q))
  \/ \E mask \in Masks, d \in {"Input", "Output"}, q \in MaskScripts :
       Counted(CallSetMultipleDirections(mask, d, q))
  \/ \E mask \in Masks, v \in BOOLEAN, q \in MaskScripts :
       Counted(CallSetMultipleOutputs(mask, v, q))
  \/ \E mask \in Masks, y \in {"Normal", "Inverted"}, q \in MaskScripts :
       Counted(CallSetMultiplePolarities(mask, y, q))
  \/ \E mask \in Masks, v \in BOOLEAN, q \in MaskScripts :
       Counted(CallEnableMultipleInputLatches(mask, v, q))

SpecMask == MaskInit /\ [][MaskNext]_vars

\* the bit the last mask-based operation gives to every selected pin
CommonBit ==
  CASE last.op = "SetMultipleDirections" -> IF last.args[2] = "Input" THEN 1 ELSE 0
    [] last.op = "SetMultiplePolarities" -> IF last.args[2] = "Inverted" THEN 1 ELSE 0
    [] OTHER -> IF last.args[2] THEN 1 ELSE 0

\* the 16-bit contents of the operation's register pair on a device
PairOn(regs) == Word(regs[MaskRegs(last.op)[1]], regs[MaskRegs(last.op)[2]])

\* every selected pin's bit equals the common value, every other bit is as
\* it was before the operation
SelectedBitsSet ==
  \A pin \in 0..(NUM_PINS - 1) :
    BitOf(PairOn(bus.regs[drv.dev_addr]), pin) =
      IF TestBit(last.args[1], pin)
        THEN CommonBit
        ELSE BitOf(PairOn(last.b.regs[drv.dev_addr]), pin)

\* the transport calls of the last operation on the register of one port
OnPort(k, port) == CallsFor(k, MaskRegs(last.op)[port + 1])

\* the mask selects a pin of the port
PortSelected(port) ==
  (IF port = 0 THEN LoByte(last.args[1]) ELSE HiByte(last.args[1])) /= 0

\* C26 as stated: one read and one write on the register of each port with
\* a selected pin, no transport transaction on the register of a port
\* without one; selected bits equal to the common value, the others unchanged.
C26_PerAffectedPort ==
  (last.op \in MaskOps /\ last.d.initialized /\ last.ret = TRUE /\ WorkingTransport) =>
    /\ \A port \in {0, 1} :
         IF PortSelected(port)
           THEN Len(OnPort("R", port)) = 1 /\ Len(OnPort("W", port)) = 1
           ELSE OnPort("R", port) = <<>> /\ OnPort("W", port) = <<>>
    /\ SelectedBitsSet

\* C26, amended: a mask-based batch that returns true has read the registers
\* of both ports and then written both, whatever the mask selects (the byte
\* of a port without a selected pin is written back as read): one successful
\* read and one successful write per port register, four transport calls in
\* all on a working transport; every selected pin's bit ends equal to the
\* common value and every unselected bit is unchanged.
C26_BothPortsAlways ==
  (last.op \in MaskOps /\ last.d.initialized /\ last.ret = TRUE) =>
    /\ \A port \in {0, 1} :
         /\ Len(SelectSeq(OnPort("R", port), LAMBDA c : c.ok)) = 1
         /\ Len(SelectSeq(OnPort("W", port), LAMBDA c : c.ok)) = 1
    /\ \A i \in 1..Len(trace) : trace[i].reg \in {MaskRegs(last.op)[1], MaskRegs(last.op)[2]}
    /\ ReadsBeforeWrites(MaskRegs(last.op))
    /\ WorkingTransport => Len(trace) = 4
    /\ SelectedBitsSet

\* SetMultipleOutputs(0x0005, false) on an initialized driver: the output
\* register of port 1 is read and written although no pin of it is selected
C26_Witness ==
  /\ last.op = "SetMultipleOutputs"
  /\ last.args = <<5, FALSE>>
  /\ last.d.initialized
  /\ last.ret = TRUE
  /\ Len(OnPort("R", 1)) = 1
  /\ Len(OnPort("W", 1)) = 1
  /\ bus.regs[drv.dev_addr][OUTPUT_PORT_0] = 160
  /\ bus.regs[drv.dev_addr][OUTPUT_PORT_1] = 60

(***************************************************************************)
(* Drive strength: a 2-bit field per pin, four pins to a register.         *)
(***************************************************************************)
StrengthInit == InitWith({BASE_ADDRESS}, {"Unknown"}, Buses({UsedRegs}))

StrengthNext ==
  \/ \E q \in Outages : Free(CallEnsureInitialized(q))
  \/ \E pin \in 0..(NUM_PINS - 1), level \in 0..3 :
       Counted(CallSetDriveStrength(pin, level, <<>>))
  \/ \E l \in ValidPinLists, q \in {<<>>, <<FALSE>>} :
       Counted(CallSetDriveStrengths(Configs("SetDriveStrengths", l), q))

SpecStrength == StrengthInit /\ [][StrengthNext]_vars

\* register 0x40 + 2*(p/8) + ((p mod 8) >= 4 ? 1 : 0)
FieldReg(p) == 64 + 2 * (p \div 8) + (IF p % 8 >= 4 THEN 1 ELSE 0)

\* bit offset ((p mod 8) mod 4) * 2
FieldOffset(p) == ((p % 8) % 4) * 2

\* the 2-bit field of pin p in the drive-strength registers of a device
FieldOn(regs, p) == (regs[FieldReg(p)] \div (2 ^ FieldOffset(p))) % 4

\* the level a list gives to pin p, or none
Listed(configs, p) == {configs[i][2] : i \in {j \in 1..Len(configs) : configs[j][1] = p}}

\* C27: a successful SetDriveStrength(p, L) on an initialized Extended
\* driver reads and writes only register 0x40 + 2*(p/8) + ((p mod 8) >= 4);
\* afterwards the field at bit offset ((p mod 8) mod 4)*2 of that register
\* equals L, its other six bits and every other register are as before; a
\* successful SetDriveStrengths reads and writes the four drive-strength
\* registers and leaves each listed pin's field at its listed level and
\* every other field as before.
C27_DriveStrengthCodec ==
  /\ (last.op = "SetDriveStrength" /\ last.d.initialized /\ last.ret = TRUE) =>
       /\ last.d.chip_variant = "PCAL9555A"
       /\ \A i \in 1..Len(trace) : trace[i].reg = FieldReg(last.args[1])
       /\ Reads /= <<>> /\ Writes /= <<>>
       /\ FieldOn(Device, last.args[1]) = last.args[2]
       /\ \A b \in (0..7) \ {FieldOffset(last.args[1]), FieldOffset(last.args[1]) + 1} :
            BitOf(Device[FieldReg(last.args[1])], b) =
              BitOf(last.b.regs[drv.dev_addr][FieldReg(last.args[1])], b)
       /\ \A r \in Regs \ {FieldReg(last.args[1])} :
            Device[r] = last.b.regs[drv.dev_addr][r]
  /\ (last.op = "SetDriveStrengths" /\ last.d.initialized /\ last.ret = TRUE) =>
       /\ last.d.chip_variant = "PCAL9555A"
       /\ \A i \in 1..Len(trace) : trace[i].reg \in 64..67
       /\ \A p \in 0..(NUM_PINS - 1) :
            IF Listed(last.args[1], p) /= {}
              THEN FieldOn(Device, p) \in Listed(last.args[1], p)
              ELSE FieldOn(Device, p) = FieldOn(last.b.regs[drv.dev_addr], p)
       /\ \A r \in Regs \ (64..67) : Device[r] = last.b.regs[drv.dev_addr][r]

\* SetDriveStrength(13, 1) on a device whose register 0x43 held 0x3C: the
\* field of pin 13 is bits 2..3, so the register ends at 0x34
C27_Witness ==
  /\ last.op = "SetDriveStrength"
  /\ last.args = <<13, 1>>
  /\ last.d.initialized
  /\ last.ret = TRUE
  /\ last.b.regs[drv.dev_addr][67] = 60
  /\ Device[67] = 52
  /\ Writes[Len(Writes)].reg = 67

(***************************************************************************)
(* Interrupt mask: bit = 0 enables the pin's interrupt, bit = 1 masks it.  *)
(***************************************************************************)
\* a list of pins with interrupt states: pin 2 one way, the others the other
IntConfigs(pins, flip) ==
  [i \in 1..Len(pins) |->
     <<pins[i], IF (pins[i] = 2) = flip THEN "Enabled" ELSE "Disabled">>]

IntMaskInit == InitWith({BASE_ADDRESS}, {"Unknown"}, Buses({UsedRegs}))

IntMaskNext ==
  \/ \E q \in Outages : Free(CallEnsureInitialized(q))
  \/ \E pin \in 0..(NUM_PINS - 1), state \in {"Enabled", "Disabled"} :
       Counted(CallConfigureInterrupt(pin, state, <<>>))
  \/ \E l \in ValidPinLists, flip \in BOOLEAN, q \in {<<>>, <<FALSE>>} :
       Counted(CallConfigureInterrupts(IntConfigs(l, flip), q))

SpecIntMask == IntMaskInit /\ [][IntMaskNext]_vars

\* the 16-bit interrupt mask held by a device
IntMaskOn(regs) == Word(regs[INT_MASK_0], regs[INT_MASK_1])

\* the mask bit of an interrupt state: 0 enabled, 1 masked
MaskBit(state) == IF state = "Enabled" THEN 0 ELSE 1

\* the successful writes of the last operation are one of INT_MASK_0 and
\* then one of INT_MASK_1
OneMaskWrite ==
  SelectSeq(Writes, LAMBDA c : c.ok) \in
    {<<[k |-> "W", addr |-> drv.dev_addr, reg |-> INT_MASK_0, ok |-> TRUE, val |-> lo],
       [k |-> "W", addr |-> drv.dev_addr, reg |-> INT_MASK_1, ok |-> TRUE, val |-> hi]>> :
       lo \in {LoByte(IntMaskOn(Device))}, hi \in {HiByte(IntMaskOn(Device))}}

\* C28: a successful ConfigureInterrupt(p, Enabled) on an initialized
\* Extended driver leaves bit p of the 16-bit interrupt mask (0x4A/0x4B)
\* equal to 0, ConfigureInterrupt(p, Disabled) leaves it equal to 1, and the
\* other 15 bits keep the values read from the device; a successful
\* ConfigureInterrupts leaves each listed pin's bit at the value of its
\* state and every other bit as read, with one write of each mask register.
C28_MaskConvention ==
  /\ (last.op = "ConfigureInterrupt" /\ last.d.initialized /\ last.ret = TRUE) =>
       /\ last.d.chip_variant = "PCAL9555A"
       /\ \A pin \in 0..(NUM_PINS - 1) :
            BitOf(IntMaskOn(Device), pin) =
              IF pin = last.args[1]
                THEN MaskBit(last.args[2])
                ELSE BitOf(IntMaskOn(last.b.regs[drv.dev_addr]), pin)
       /\ OneMaskWrite
       /\ \A r \in Regs \ {INT_MASK_0, INT_MASK_1} :
            Device[r] = last.b.regs[drv.dev_addr][r]
  /\ (last.op = "ConfigureInterrupts" /\ last.d.initialized /\ last.ret = TRUE) =>
       /\ last.d.chip_variant = "PCAL9555A"
       /\ \A pin \in 0..(NUM_PINS - 1) :
            IF Listed(last.args[1], pin) /= {}
              THEN \E state \in Listed(last.args[1], pin) :
                     BitOf(IntMaskOn(Device), pin) = MaskBit(state)
              ELSE BitOf(IntMaskOn(Device), pin) =
                     BitOf(IntMaskOn(last.b.regs[drv.dev_addr]), pin)
       /\ OneMaskWrite
       /\ \A r \in Regs \ {INT_MASK_0, INT_MASK_1} :
            Device[r] = last.b.regs[drv.dev_addr][r]

\* ConfigureInterrupt(9, Disabled) on a device whose mask was 0x3CA5: bit 9
\* is set, the mask ends at 0x3EA5
C28_Witness ==
  /\ last.op = "ConfigureInterrupt"
  /\ last.args = <<9, "Disabled">>
  /\ last.d.initialized
  /\ last.ret = TRUE
  /\ IntMaskOn(last.b.regs[drv.dev_addr]) = 15525
  /\ IntMaskOn(Device) = 16037

(***************************************************************************)
(* HandleInterrupt on the PCAL9555A: the status registers                  *)
(***************************************************************************)

\* the last operation was a dispatch by an initialized driver whose variant
\* was Extended when the dispatch started
ExtendedDispatch ==
  /\ last.op = "HandleInterrupt"
  /\ last.d.initialized
  /\ last.d.chip_variant = "PCAL9555A"

\* what GetInterruptStatus returned in the last dispatch of an Extended
\* driver: the reads end with a run for INT_STATUS_0, a run for
\* INT_STATUS_1 and the two runs of readPinStates
StatusRead == Word(Reads[RunEnd(4)].val, Reads[RunEnd(3)].val)

\* the k-th run of reads from the end is of register reg; if its last read
\* succeeded it returned what the device held before the dispatch
RunOf(k, reg) ==
  /\ Reads[RunEnd(k)].reg = reg
  /\ Reads[RunEnd(k)].ok =>
       Reads[RunEnd(k)].val = last.b.regs[last.d.dev_addr][reg]

ConsecutiveBaseDispatches ==
  /\ last.op = "HandleInterrupt"
  /\ Dispatches /= <<>>
  /\ last'.op = "HandleInterrupt"
  /\ last'.d.chip_variant = "PCA9555"
  /\ bus' = bus

\* the dispatch this step ends gave 0 to the global callback, if one is set,
\* and ran no pin callback
QuietDispatch ==
  /\ Dispatches' /= <<>>
  /\ Dispatches'[1].mask = 0
  /\ GlobalCallbacks' =
       IF last'.d.irq_callback = NoHandler THEN <<>>
       ELSE <<[k |-> "G", handler |-> last'.d.irq_callback, mask |-> 0]>>
  /\ Calls("P")' = <<>>

\* C30: the second of two consecutive dispatches on the Base variant, with
\* no change of the input levels in between, gives 0 to the global callback
\* and runs no pin callback.
C30_NeverDispatchedTwice ==
  [][ConsecutiveBaseDispatches => QuietDispatch]_vars

(***************************************************************************)
(* Batch operations whose second write fails                               *)
(***************************************************************************)

\* n transport calls that succeed
Pass(n) == [i \in 1..n |-> TRUE]

\* transports that work for two to six calls and are then down for up to
\* MaxRetries + 1 calls: the reads of a batch and some of its writes succeed
PartialScripts == {Pass(n) \o FailPrefix(k) : n \in 2..6, k \in 0..(MaxRetries + 1)}

PartialInit == InitWith({BASE_ADDRESS}, {"Unknown"}, Buses({UsedRegs}))

PartialNext ==
  \/ Free(CallEnsureInitialized(<<>>))
  \/ \E n \in 0..MaxRetries : Free(CallSetRetries(n))
  \/ \E q \in PartialScripts : Counted(CallSetMultipleDirections(517, "Output", q))
  \/ \E q \in PartialScripts : Counted(CallSetMultipleOutputs(517, FALSE, q))
  \/ \E q \in PartialScripts : Counted(CallSetMultiplePolarities(517, "Inverted", q))
  \/ \E q \in PartialScripts : Counted(CallEnableMultipleInputLatches(517, FALSE, q))
  \/ \E op \in AllListOps, q \in PartialScripts :
       Counted(CallList(op, Configs(op, <<0, 2, 9>>), q))

SpecPartial == PartialInit /\ [][PartialNext]_vars

\* the i-th transport call of the last operation is a write that succeeded,
\* and the retries_ + 1 calls after it are failed writes of another register
PartialFailure(i) ==
  /\ trace[i].k = "W"
  /\ trace[i].ok
  /\ Len(trace) >= i + last.d.retries + 1
  /\ \A j \in (i + 1)..(i + last.d.retries + 1) :
       /\ trace[j].k = "W"
       /\ ~trace[j].ok
       /\ trace[j].reg = trace[i + 1].reg
       /\ trace[j].reg /= trace[i].reg

\* C31: when a mask-based or list-based batch operation has written one
\* register successfully and the write of the next register then fails on all
\* retries_ + 1 attempts, the operation returns false with I2CWriteFail set,
\* the register written holds its new value and the register whose write
\* failed holds the value it had before the operation, and the failed
\* attempts are the last transport calls of the operation.
C31_NoRollback ==
  (last.op \in MaskOps \cup AllListOps) =>
    \A i \in 1..Len(trace) :
      PartialFailure(i) =>
        /\ Len(trace) = i + last.d.retries + 1
        /\ last.ret = FALSE
        /\ "I2CWriteFail" \in drv.error_flags
        /\ bus.regs[drv.dev_addr][trace[i].reg] = trace[i].val
        /\ bus.regs[drv.dev_addr][trace[i + 1].reg] =
             last.b.regs[last.d.dev_addr][trace[i + 1].reg]
        /\ \A r \in Regs \ {trace[j].reg : j \in 1..i} :
             bus.regs[drv.dev_addr][r] = last.b.regs[last.d.dev_addr][r]

\* SetMultipleOutputs(0x0205, false) on an initialized driver with one retry,
\* both reads and the write of OUTPUT_PORT_0 succeeding and both attempts on
\* OUTPUT_PORT_1 failing: port 0 holds 0xA0, port 1 still 0x3C
C31_Witness ==
  /\ last.op = "SetMultipleOutputs"
  /\ last.d.initialized
  /\ last.d.retries = 1
  /\ Len(trace) = 5
  /\ PartialFailure(3)
  /\ trace[3].reg = OUTPUT_PORT_0
  /\ trace[5].reg = OUTPUT_PORT_1
  /\ last.ret = FALSE
  /\ "I2CWriteFail" \in drv.error_flags
  /\ last.b.regs[last.d.dev_addr][OUTPUT_PORT_0] = 165
  /\ bus.regs[drv.dev_addr][OUTPUT_PORT_0] = 160
  /\ bus.regs[drv.dev_addr][OUTPUT_PORT_1] = 60

(***************************************************************************)
(* The snapshot of the input levels across initialization, address         *)
(* changes and registrations                                               *)
(***************************************************************************)

SnapshotInit == InitWith({BASE_ADDRESS}, {"Unknown"}, Buses({UsedRegs}))

SnapshotNext ==
  \/ \E p0 \in Port0Levels, s \in BOOLEAN :
       Free(PinsChange(p0, 60, IF s THEN 1 ELSE 0, 0))
  \/ Free(CallEnsureInitialized(<<>>))
  \/ \E a \in {BASE_ADDRESS, BASE_ADDRESS + 1}, q \in {<<>>, FailPrefix(MaxRetries)} :
       Free(CallChangeAddress(a, q))
  \/ \E pin \in {0, 9} : Free(CallRegisterPinInterrupt(pin, "Both", "f", <<>>))
  \/ \E q \in {<<>>, <<TRUE, TRUE>> \o FailPrefix(MaxRetries)} :
       Free(CallHandleInterrupt(q))

SpecSnapshot == SnapshotInit /\ [][SnapshotNext]_vars

\* the input levels of the device the driver addresses
DeviceLevels ==
  Word(bus.regs[drv.dev_addr][INPUT_PORT_0], bus.regs[drv.dev_addr][INPUT_PORT_1])

\* every read of the last operation succeeded
AllReadsGood == \A i \in 1..Len(Reads) : Reads[i].ok

\* the last operation made the driver initialized: it found it uninitialized,
\* or it was a ChangeAddress to another device address that returned true
BecameInitialized ==
  /\ drv.initialized
  /\ \/ ~last.d.initialized
     \/ /\ last.op = "ChangeAddress"
        /\ last.ret = TRUE
        /\ drv.dev_addr /= last.d.dev_addr

\* C32: whenever an operation has made the driver initialized, through
\* initialize() or through a successful ChangeAddress to another device
\* address, previous_pin_states_ holds the input levels of the device now
\* addressed (all reads of the operation having succeeded).
C32_SnapshotAtInitialization ==
  (BecameInitialized /\ AllReadsGood) => drv.previous_pin_states = DeviceLevels

(***************************************************************************)
(* RegisterPinInterrupt: the slot it stores and what it leaves alone       *)
(***************************************************************************)

RegisterInit == InitWith({BASE_ADDRESS}, {"Unknown"}, Buses({UsedRegs}))

\* the registrations tried: two that replace each other on pin 0, one on
\* pin 9, and the rejected ones
Registrations ==
  {<<0, "Rising", "f">>, <<0, "Falling", "g">>, <<9, "Both", "f">>,
   <<NUM_PINS, "Both", "f">>, <<0, "Both", NoHandler>>, <<NUM_PINS, "Both", NoHandler>>}

RegisterNext ==
  \/ \E l \in {<<165, 60>>, <<164, 62>>}, s \in BOOLEAN :
       Free(PinsChange(l[1], l[2], IF s THEN 1 ELSE 0, IF s THEN 2 ELSE 0))
  \/ Free(CallEnsureInitialized(<<>>))
  \/ \E r \in Registrations, q \in Outages :
       Free(CallRegisterPinInterrupt(r[1], r[2], r[3], q))
  \/ Free(CallHandleInterrupt(<<>>))

SpecRegister == RegisterInit /\ [][RegisterNext]_vars

\* the last operation was RegisterPinInterrupt with a pin in range and a
\* handler that is not empty
GoodRegistration ==
  /\ last.op = "RegisterPinInterrupt"
  /\ last.args[1] < NUM_PINS
  /\ last.args[3] /= NoHandler

\* the last operation was RegisterPinInterrupt with a pin out of range or an
\* empty handler
BadRegistration ==
  /\ last.op = "RegisterPinInterrupt"
  /\ last.args[1] >= NUM_PINS \/ last.args[3] = NoHandler

\* the slot table with the record of the last RegisterPinInterrupt in the slot
\* of its pin and every other slot as before
SlotStored ==
  drv.pin_callbacks =
    [last.d.pin_callbacks EXCEPT ![last.args[1]] =
       [callback |-> last.args[3], edge |-> last.args[2], registered |-> TRUE]]

\* a dispatch invokes for a pin only the handler its slot held, and only on
\* an edge the slot's filter lets through
OnlyStoredHandler ==
  last.op = "HandleInterrupt" =>
    \A i \in 1..Len(trace) :
      trace[i].k = "P" =>
        LET slot == last.d.pin_callbacks[trace[i].pin]
        IN /\ slot.registered
           /\ trace[i].handler = slot.callback
           /\ shouldCall(slot.edge, TestBit(Dispatches[1].previous, trace[i].pin),
                         TestBit(Dispatches[1].current, trace[i].pin))

\* InvalidPin after a rejected registration: set for a pin out of range,
\* cleared for an empty handler with a pin in range
RejectedFlags ==
  IF last.args[1] >= NUM_PINS THEN "InvalidPin" \in drv.error_flags
                              ELSE "InvalidPin" \notin drv.error_flags

\* C33 as stated: a registration with p < 16 and a handler stores that one
\* record in the slot of p, leaves the other slots, refreshes
\* previous_pin_states_ and returns true; with p >= 16 it returns false and
\* sets InvalidPin, with an empty handler it returns false, and in both
\* cases every slot and previous_pin_states_ are as before.
C33_RegisterReplaces ==
  /\ OnlyStoredHandler
  /\ GoodRegistration =>
       /\ last.ret = TRUE
       /\ SlotStored
       /\ drv.previous_pin_states = PinStatesRead(1)
  /\ BadRegistration =>
       /\ last.ret = FALSE
       /\ RejectedFlags
       /\ drv.pin_callbacks = last.d.pin_callbacks
       /\ drv.previous_pin_states = last.d.previous_pin_states

\* C33, amended: the same on a driver that is initialized when the call
\* starts. On an uninitialized driver the call first runs initialize(): if
\* that fails the call returns false, stores nothing and sets I2CReadFail,
\* whatever its arguments; if it succeeds a good registration is stored as
\* stated and a rejected one leaves every slot as before, but
\* previous_pin_states_ is the snapshot initialize() took.
C33_RegisterReplacesWhenInitialized ==
  /\ OnlyStoredHandler
  /\ (GoodRegistration /\ drv.initialized) =>
       /\ last.ret = TRUE
       /\ SlotStored
       /\ drv.previous_pin_states = PinStatesRead(1)
  /\ (BadRegistration /\ drv.initialized) =>
       /\ last.ret = FALSE
       /\ RejectedFlags
       /\ drv.pin_callbacks = last.d.pin_callbacks
       /\ IF last.d.initialized
            THEN drv.previous_pin_states = last.d.previous_pin_states
            ELSE drv.previous_pin_states = PinStatesRead(1)
  /\ (last.op = "RegisterPinInterrupt" /\ ~drv.initialized) =>
       /\ ~last.d.initialized
       /\ last.ret = FALSE
       /\ "I2CReadFail" \in drv.error_flags
       /\ drv.pin_callbacks = last.d.pin_callbacks
       /\ drv.previous_pin_states = last.d.previous_pin_states

\* pin 0 held handler f for rising edges; RegisterPinInterrupt(0, Falling, g)
\* on the initialized driver replaced it, left the slot of pin 9 registered
\* and took the levels 0xA4 / 0x3E, which differ from the snapshot before
C33_Witness ==
  /\ GoodRegistration
  /\ last.d.initialized
  /\ last.args = <<0, "Falling", "g">>
  /\ last.d.pin_callbacks[0] = [callback |-> "f", edge |-> "Rising", registered |-> TRUE]
  /\ drv.pin_callbacks[0] = [callback |-> "g", edge |-> "Falling", registered |-> TRUE]
  /\ drv.pin_callbacks[9].registered
  /\ last.d.previous_pin_states = Word(165, 60)
  /\ drv.previous_pin_states = Word(164, 62)

(***************************************************************************)
(* Initialization reads, and only reads                                    *)
(***************************************************************************)

\* C35: EnsureInitialized() never calls the transport's Write: its transport
\* calls are the transport's EnsureInitialized, SetAddressPins and Read, and
\* the devices hold after it what they held before, whichever of its reads
\* succeed or fail.
C35_InitializationReadOnly ==
  last.op = "EnsureInitialized" =>
    /\ \A i \in 1..Len(trace) : trace[i].k \in {"E", "A", "R"}
    /\ Writes = <<>>
    /\ bus = last.b

\* an EnsureInitialized() that initialized the driver and detected a
\* PCAL9555A after a failed attempt of its verification read: seven reads, the
\* probe of OUTPUT_CONF among them, and the devices are as before
C35_Witness ==
  /\ last.op = "EnsureInitialized"
  /\ ~last.d.initialized
  /\ last.ret = TRUE
  /\ drv.chip_variant = "PCAL9555A"
  /\ Len(Reads) = 7
  /\ ~Reads[1].ok
  /\ CallsFor("R", OUTPUT_CONF) /= <<>>
  /\ bus = last.b

(***************************************************************************)
(* HandleInterrupt: what is dispatched when a read fails, when the status  *)
(* bit of an unchanged pin is set, and after a registration                *)
(***************************************************************************)

\* C36: a dispatch invokes a pin callback only for a pin whose level on the
\* device differs from the level previous_pin_states_ held for it, and a
\* dispatch that got past its guard leaves in previous_pin_states_ the levels
\* of the device, whether or not its reads succeeded.
C36_FailedReadIsNotALevel ==
  (last.op = "HandleInterrupt" /\ Dispatches /= <<>>) =>
    /\ \A pin \in 0..(NUM_PINS - 1) :
         PinCallbacks(pin) /= <<>> =>
           TestBit(DeviceLevels, pin) /= TestBit(Dispatches[1].previous, pin)
    /\ drv.previous_pin_states = DeviceLevels

\* C37: in a dispatch, every pin whose bit is set in interrupt_status and
\* whose slot holds a callback registered for both edges has that callback
\* invoked exactly once.
C37_BothMeansEveryInterrupt ==
  (last.op = "HandleInterrupt" /\ Dispatches /= <<>>) =>
    \A pin \in 0..(NUM_PINS - 1) :
      (/\ TestBit(Dispatches[1].mask, pin)
       /\ last.d.pin_callbacks[pin].registered
       /\ last.d.pin_callbacks[pin].edge = "Both") =>
        Len(PinCallbacks(pin)) = 1

\* the last operation was a successful RegisterPinInterrupt for pin 9 on an
\* initialized driver that held a callback for both edges of pin 0 while the
\* level of pin 0 on the device differed from the snapshot (and, on the
\* PCAL9555A, the status bit of pin 0 was set): a change of pin 0 is pending
PendingAcrossRegistration ==
  /\ last.op = "RegisterPinInterrupt"
  /\ last.args[1] = 9
  /\ last.ret = TRUE
  /\ last.d.initialized
  /\ last.d.pin_callbacks[0].registered
  /\ last.d.pin_callbacks[0].edge = "Both"
  /\ TestBit(last.b.regs[last.d.dev_addr][INPUT_PORT_0], 0)
       /= TestBit(last.d.previous_pin_states, 0)
  /\ last.d.chip_variant = "PCAL9555A" =>
       TestBit(last.b.regs[last.d.dev_addr][INT_STATUS_0], 0)

\* C38: a change of pin 0 that is pending when RegisterPinInterrupt(9, ...) is
\* called is delivered to the callback of pin 0 by the HandleInterrupt that
\* comes next, the transport working.
C38_RegistrationKeepsPendingEdge ==
  [][(/\ PendingAcrossRegistration
      /\ last'.op = "HandleInterrupt"
      /\ \A i \in 1..Len(Reads') : Reads'[i].ok) =>
       Len(PinCallbacks(0)') = 1]_vars

(***************************************************************************)
(* A ChangeAddress whose verification read fails                           *)
(***************************************************************************)

\* the address bits the last ChangeAddress, of either overload, asked for
RequestedBits ==
  IF last.op = "ChangeAddress"
    THEN last.args[1] - BASE_ADDRESS
    ELSE 4 * Level(last.args[3]) + 2 * Level(last.args[2]) + Level(last.args[1])

\* the last operation was a ChangeAddress to an address in range that
\* returned false
FailedChange ==
  /\ \/ last.op = "ChangeAddress" /\ last.args[1] \in BASE_ADDRESS..MAX_ADDRESS
     \/ last.op = "ChangeAddressPins"
  /\ last.ret = FALSE

\* C39: a ChangeAddress to a valid address that returns false has set
\* I2CReadFail after retries_ + 1 failed reads of INPUT_PORT_0 at the new
\* address, and leaves the driver at the new address (dev_addr_,
\* address_bits_ and the three levels), not initialized, with the variant it
\* had; an operation that starts with EnsureInitialized() on the driver so
\* left runs initialize(), whose reads go to the new address.
C39_FailedChangeNotRolledBack ==
  /\ FailedChange =>
       /\ "I2CReadFail" \in drv.error_flags
       /\ drv.dev_addr = BASE_ADDRESS + RequestedBits
       /\ drv.address_bits = RequestedBits
       /\ drv.a0_level = TestBit(RequestedBits, 0)
       /\ drv.a1_level = TestBit(RequestedBits, 1)
       /\ drv.a2_level = TestBit(RequestedBits, 2)
       /\ ~drv.initialized
       /\ drv.chip_variant = last.d.chip_variant
       /\ Len(Reads) = last.d.retries + 1
       /\ \A i \in 1..Len(Reads) :
            /\ ~Reads[i].ok
            /\ Reads[i].reg = INPUT_PORT_0
            /\ Reads[i].addr = drv.dev_addr
  /\ (last.op \in {"ReadPin", "SetPinDirection"} /\ ~last.d.initialized) =>
       /\ trace /= <<>>
       /\ trace[1].k = "E"
       /\ \A i \in 1..Len(trace) :
            trace[i].k \in {"R", "W"} => trace[i].addr = last.d.dev_addr
       /\ drv.dev_addr = last.d.dev_addr

\* ChangeAddress(0x27), where no device answers, on a driver initialized at
\* another address as a PCAL9555A: false, I2CReadFail, the driver at 0x27, not
\* initialized, still a PCAL9555A
C39_Witness ==
  /\ FailedChange
  /\ last.op = "ChangeAddress"
  /\ last.args[1] = MAX_ADDRESS
  /\ last.d.initialized
  /\ last.d.chip_variant = "PCAL9555A"
  /\ last.d.dev_addr /= MAX_ADDRESS
  /\ drv.dev_addr = MAX_ADDRESS
  /\ drv.a0_level /\ drv.a1_level /\ drv.a2_level
  /\ ~drv.initialized
  /\ drv.chip_variant = "PCAL9555A"
  /\ "I2CReadFail" \in drv.error_flags

(***************************************************************************)
(* Retry counts below zero                                                 *)
(***************************************************************************)

\* C40: whatever SetRetries was given, a register read or write makes at
\* least one and at most max(retries_, 0) + 1 transport attempts, and it
\* fails, setting its flag, only after an attempt that failed.
C40_AtLeastOneAttempt ==
  (last.op \in {"readRegister", "writeRegister"}) =>
    LET most == (IF last.d.retries > 0 THEN last.d.retries ELSE 0) + 1
        flag == IF last.op = "readRegister" THEN "I2CReadFail" ELSE "I2CWriteFail"
    IN /\ Len(trace) \in 1..most
       /\ (last.ret = FALSE \/ flag \in drv.error_flags \ last.d.error_flags) =>
            \E i \in 1..Len(trace) : ~trace[i].ok

(***************************************************************************)
(* Two threads sharing one driver without a lock.                          *)
(*                                                                         *)
(* The driver takes no lock and disables no interrupt: HandleInterrupt     *)
(* and the read-modify-write of a pin operation are sequences of transport *)
(* calls on shared members.  Here an invocation advances by one transport  *)
(* call per step, together with the code that follows that call up to the  *)
(* next one, and the steps of the two threads interleave freely.  The      *)
(* driver is an initialized PCA9555 driver on a working transport, with a  *)
(* global callback "g" and a Both-edge callback "f" on pin 0.  trace holds  *)
(* the transport calls and callbacks of every invocation, in order.        *)
(***************************************************************************)
\* invocations started per run, over both threads
MaxInvocations == 3

\* the bus of the run: the driver's device is a plain PCA9555
SharedBus == CHOOSE b \in Buses({UsedRegs}) : b.hw[BASE_ADDRESS] = "PCA9555"

\* the driver after EnsureInitialized, SetInterruptCallback and
\* RegisterPinInterrupt have run, one after the other, on a working transport
SharedSetup ==
  Let([d |-> Construct(BASE_ADDRESS, "Unknown"), b |-> SharedBus, s |-> <<>>, t |-> <<>>],
      LAMBDA m0 :
  Let(EnsureInitializedOp(m0).m, LAMBDA m1 :
  Let(SetInterruptCallback(m1, "g").m, LAMBDA m2 :
    RegisterPinInterrupt(m2, 0, "Both", "f").m)))

SharedInit ==
  /\ drv = SharedSetup.d
  /\ bus = SharedSetup.b
  /\ trace = <<>>
  /\ last = [op |-> "RegisterPinInterrupt", args |-> <<0, "Both", "f">>, ret |-> TRUE,
             d |-> drv, b |-> bus]
  /\ calls = 0
  /\ run = NoRun

\* the driver and the bus as a thread finds them at one of its steps
Shared == [d |-> drv, b |-> bus, s |-> <<>>, t |-> trace]

\* the output bit thread t writes: thread 1 clears pin 0, thread 2 sets pin 1,
\* two bits of OUTPUT_PORT_0
EditOf(t) == [pin |-> t - 1, value |-> t = 2]

\* a step of thread t: the machine it leaves, the invocation it is then in
Step(t, name, m, inv) ==
  /\ drv' = m.d
  /\ bus' = m.b
  /\ trace' = m.t
  /\ last' = [op |-> name, args |-> <<t, run.inv[t].pc + 1>>, ret |-> "void",
              d |-> drv, b |-> bus]
  /\ run' = [run EXCEPT !.inv[t] = inv]

\* thread t enters an operation: it overlaps when the other thread is inside one
Enter(t, name, m, inv) ==
  /\ run.inv[t].op = "Idle"
  /\ calls < MaxInvocations
  /\ calls' = calls + 1
  /\ drv' = m.d
  /\ bus' = m.b
  /\ trace' = m.t
  /\ last' = [op |-> name, args |-> <<t, 1>>, ret |-> "void", d |-> drv, b |-> bus]
  /\ run' = [run EXCEPT
       !.inv[t] = inv,
       !.overlapped = @ \/ \E u \in Threads \ {t} : run.inv[u].op /= "Idle"]

\* HandleInterrupt, Base branch, up to its first transport call:
\* EnsureInitialized() on an initialized driver, then readPinStates() reads
\* INPUT_PORT_0
HandleInterruptRead1(t) ==
  \E p0 \in {readRegister(Shared, INPUT_PORT_0, 0)} :
    Enter(t, "HandleInterrupt", p0.m,
          [op |-> "HandleInterrupt", pc |-> 1, lo |-> p0.val, status |-> 0])

\* readPinStates() reads INPUT_PORT_1;
\* interrupt_status = current ^ previous_pin_states_
HandleInterruptRead2(t) ==
  /\ run.inv[t].op = "HandleInterrupt" /\ run.inv[t].pc = 1
  /\ UNCHANGED calls
  /\ \E p1 \in {readRegister(Shared, INPUT_PORT_1, 0)} :
       Step(t, "HandleInterrupt", p1.m,
            [run.inv[t] EXCEPT !.pc = 2, !.lo = 0,
               !.status = Xor16(Word(run.inv[t].lo, p1.val),
                                p1.m.d.previous_pin_states)])

\* current_states = readPinStates() reads INPUT_PORT_0
HandleInterruptRead3(t) ==
  /\ run.inv[t].op = "HandleInterrupt" /\ run.inv[t].pc = 2
  /\ UNCHANGED calls
  /\ \E p0 \in {readRegister(Shared, INPUT_PORT_0, 0)} :
       Step(t, "HandleInterrupt", p0.m,
            [run.inv[t] EXCEPT !.pc = 3, !.lo = p0.val])

\* the end of HandleInterrupt without its last statement: the snapshot is
\* left as it was
finishDispatchKeepingSnapshot(m, interrupt_status, current_states) ==
  dispatchPins(callGlobal(dispatched(m, interrupt_status, current_states),
                          interrupt_status),
               interrupt_status, current_states, 0)

\* the end of HandleInterrupt after its last read: the callbacks, then
\* previous_pin_states_ = current_states
finishDispatch(m, interrupt_status, current_states) ==
  Let(dispatchPins(callGlobal(dispatched(m, interrupt_status, current_states),
                              interrupt_status),
                   interrupt_status, current_states, 0),
      LAMBDA done : [done EXCEPT !.d.previous_pin_states = current_states])

\* readPinStates() reads INPUT_PORT_1, then the callbacks run and the
\* snapshot is replaced
HandleInterruptRead4(t) ==
  /\ run.inv[t].op = "HandleInterrupt" /\ run.inv[t].pc = 3
  /\ UNCHANGED calls
  /\ \E p1 \in {readRegister(Shared, INPUT_PORT_1, 0)} :
       Step(t, "HandleInterrupt",
            finishDispatch(p1.m, run.inv[t].status, Word(run.inv[t].lo, p1.val)),
            Idle)

\* WritePin up to its first transport call: EnsureInitialized(), the pin
\* check, clearError(InvalidPin), then modifySinglePinRegister reads
\* OUTPUT_PORT_0
WritePinRead(t) ==
  \E r \in {readRegister(clearError(Shared, "InvalidPin"), OUTPUT_PORT_0, 0)} :
    Enter(t, "WritePin", r.m,
          [op |-> "WritePin", pc |-> 1, lo |-> r.val, status |-> 0])

\* modifySinglePinRegister writes the byte it read with the one bit updated
WritePinWrite(t) ==
  /\ run.inv[t].op = "WritePin" /\ run.inv[t].pc = 1
  /\ UNCHANGED calls
  /\ \E w \in {writeRegister(Shared, OUTPUT_PORT_0,
                   updateBit(run.inv[t].lo, EditOf(t).pin % 8, EditOf(t).value))} :
       /\ drv' = w.m.d
       /\ bus' = w.m.b
       /\ trace' = w.m.t
       /\ last' = [op |-> "WritePin", args |-> <<t, 2>>, ret |-> w.ok,
                   d |-> drv, b |-> bus]
       /\ run' = [run EXCEPT !.inv[t] = Idle, !.edits = @ \cup {EditOf(t)}]

\* the level of input pin 0 changes on the device, once in a run
LevelChange ==
  /\ run.changes = 0
  /\ bus' = [bus EXCEPT !.regs[drv.dev_addr][INPUT_PORT_0] =
               updateBit(@, 0, ~TestBit(@, 0))]
  /\ run' = [run EXCEPT !.changes = 1]
  /\ last' = [op |-> "PinsChange", args |-> <<>>, ret |-> "void", d |-> drv, b |-> bus']
  /\ UNCHANGED <<drv, trace, calls>>

SharedNext ==
  \/ LevelChange
  \/ \E t \in Threads : HandleInterruptRead1(t)
  \/ \E t \in Threads : HandleInterruptRead2(t)
  \/ \E t \in Threads : HandleInterruptRead3(t)
  \/ \E t \in Threads : HandleInterruptRead4(t)
  \/ \E t \in Threads : WritePinRead(t)
  \/ \E t \in Threads : WritePinWrite(t)

SpecShared == SharedInit /\ [][SharedNext]_vars

\* the invocations of the global callback that report pin 0
GlobalDeliveries ==
  SelectSeq(trace, LAMBDA c : c.k = "G" /\ TestBit(c.mask, 0))

\* the invocations of the callback of pin 0
PinDeliveries == SelectSeq(trace, LAMBDA c : c.k = "P" /\ c.pin = 0)

\* every output bit a completed WritePin wrote is in the device's register
EditsKept ==
  \A e \in run.edits :
    TestBit(bus.regs[drv.dev_addr][OUTPUT_PORT_0], e.pin) = e.value

\* C34: as long as no operation started while another was in flight (every
\* operation ran as a whole, as under an external lock), a level change is
\* delivered at most once, to the pin callback and to the global callback,
\* and every output bit a completed WritePin wrote is still in the register.
C34_SerializedDeliversOnce ==
  ~run.overlapped =>
    /\ Len(PinDeliveries) <= run.changes
    /\ Len(GlobalDeliveries) <= run.changes
    /\ EditsKept

\* HandleInterrupt invocations overlapped on the Base variant and the one
\* level change of pin 0 was delivered twice to the callback of pin 0: an
\* invocation that read the levels before the change wrote them back over
\* the snapshot of the invocation that had delivered the change
C34_Witness ==
  /\ run.overlapped
  /\ drv.chip_variant = "PCA9555"
  /\ run.changes = 1
  /\ Len(PinDeliveries) = 2

====
